---- MODULE Spec2Model ----
(***************************************************************************)
(* A model of the log-record extraction engine of ai-soc:                  *)
(*   src/transform_generated_log.py   clean_value                          *)
(*   src/web/elasticsearch_extractor.py                                    *)
(*       parse_message_field, extract_from_event_xml,                      *)
(*       normalize_field_names, extract_data_from_log                      *)
(*                                                                         *)
(* Text is a sequence of one-character strings, so that stripping,         *)
(* lower-casing, parsing and regular-expression scanning are computed      *)
(* character by character, as the Python library does.                     *)
(***************************************************************************)
EXTENDS Integers, Sequences, FiniteSets, TLC

VARIABLES
    pc,            \* position of the running function
    val,           \* clean_value: the argument
    cleaned,       \* clean_value(val)
    recleaned,     \* clean_value(clean_value(val))
    hit,           \* extract_data_from_log: the argument
    origin,        \* how the hit's message text was produced (history only)
    result,        \* extract_data_from_log: the record being built
    decoded,       \* the value parse_message_field returned (history only)
    strategy,      \* the strategy that returned it (history only)
    message_data,  \* extract_data_from_log: its local variable
    xml_data,      \* the value extract_from_event_xml returned
    exc,           \* the exception that ended the call, and where it rose
    host,          \* main: what --host designates, a file or a service
    hits,          \* main, process_file_directly: the hits loaded
    extracted_data, \* main, process_file_directly: the records extracted
    fieldnames,    \* save_to_csv: the column names given to the writer
    csvfile,       \* the output file: its state and the rows it holds
    logged,        \* the records logged so far: (level, message)
    args,          \* orch.py: the command line, --input and --timestamp
    ts,            \* orch.py main: the timestamp of the output files
    phase,         \* orch.py main: the run_phase call it has reached
    processes,     \* the processes started so far, with their return codes
    files,         \* what each path designates
    df_orig,       \* orch.py main: the original log, as read and merged
    predictions,   \* orch.py main: df_cat, df_inc and df_mitre
    printed        \* what orch.py has printed so far

\* the variables of clean_value and of one extract_data_from_log call
extractvars == <<val, cleaned, recleaned, hit, origin, result, decoded,
                 strategy, message_data, xml_data>>

\* the variables of a run of main
runvars == <<host, hits, extracted_data, fieldnames, csvfile, logged>>

\* the variables of a run of the orchestrator
orchvars == <<args, ts, phase, processes, files, df_orig, predictions,
              printed>>

vars == <<pc, exc, extractvars, runvars, orchvars>>

(***************************************************************************)
(* Characters and Python's str methods                                     *)
(***************************************************************************)
UpperSeq ==
    <<"A","B","C","D","E","F","G","H","I","J","K","L","M",
      "N","O","P","Q","R","S","T","U","V","W","X","Y","Z">>

LowerSeq ==
    <<"a","b","c","d","e","f","g","h","i","j","k","l","m",
      "n","o","p","q","r","s","t","u","v","w","x","y","z">>

Digits == {"0","1","2","3","4","5","6","7","8","9"}

Range(f) == {f[i] : i \in DOMAIN f}

LowerOf ==
    [c \in Range(UpperSeq) |->
        LowerSeq[CHOOSE i \in DOMAIN UpperSeq : UpperSeq[i] = c]]

UpperOf ==
    [c \in Range(LowerSeq) |->
        UpperSeq[CHOOSE i \in DOMAIN LowerSeq : LowerSeq[i] = c]]

\* str.lower(), one character
lower_ch(c) == IF c \in DOMAIN LowerOf THEN LowerOf[c] ELSE c

\* str.lower()
lower(s) == [i \in 1..Len(s) |-> lower_ch(s[i])]

\* the characters str.strip() and the regex class \s remove or match
IsSpace(c) == c \in {" ", "\t", "\n", "\r"}

\* the regex class \w
IsWord(c) == c \in Range(LowerSeq) \cup Range(UpperSeq) \cup Digits \cup {"_"}

\* the least and the greatest member of a non-empty set of numbers
MinOf(S) == CHOOSE j \in S : \A k \in S : j <= k
MaxOf(S) == CHOOSE j \in S : \A k \in S : k <= j

\* the index after the longest run of characters satisfying In that starts
\* at i (i itself when s[i] does not satisfy it)
RunEnd(s, i, In(_)) ==
    LET stop == {j \in i..Len(s) : ~In(s[j])}
    IN  IF stop = {} THEN Len(s) + 1 ELSE MinOf(stop)

\* str.lstrip()
lstrip(s) == SubSeq(s, RunEnd(s, 1, IsSpace), Len(s))

\* str.rstrip()
rstrip(s) ==
    LET keep == {j \in 1..Len(s) : ~IsSpace(s[j])}
    IN  IF keep = {} THEN <<>> ELSE SubSeq(s, 1, MaxOf(keep))

\* str.strip()
strip(s) == rstrip(lstrip(s))

\* whether text lit occurs in s at index i
MatchAt(s, i, lit) ==
    /\ i >= 1
    /\ i + Len(lit) - 1 <= Len(s)
    /\ \A k \in 1..Len(lit) : s[i + k - 1] = lit[k]

(***************************************************************************)
(* Python values.  Every value is a record [t, v]: t is its type and v a   *)
(* sequence: the characters of a str, the decimal digits of an int, the    *)
(* elements of a list or a tuple, the (key, value) pairs of a dict in      *)
(* insertion order                                                         *)
(* ("True"/"False" for a bool, nothing for None and for pandas' NaN).      *)
(***************************************************************************)
Str(s)  == [t |-> "str",  v |-> s]
Num(s)  == [t |-> "int",  v |-> s]
Bool(b) == [t |-> "bool", v |-> <<b>>]
None    == [t |-> "None", v |-> <<>>]
NaN     == [t |-> "nan",  v |-> <<>>]
List(l) == [t |-> "list", v |-> l]
Tuple(l) == [t |-> "tuple", v |-> l]
Dict(d) == [t |-> "dict", v |-> d]
Unset   == [t |-> "unset", v |-> <<>>]

\* no exception has ended the call
NoException == [type |-> "none", fn |-> "none"]

\* the state of the variables of a function that is not running
ExtractIdle ==
    /\ val = Unset
    /\ cleaned = Unset
    /\ recleaned = Unset
    /\ hit = Unset
    /\ origin = Unset
    /\ result = Unset
    /\ decoded = Unset
    /\ strategy = "none"
    /\ message_data = Unset
    /\ xml_data = Unset

RunIdle ==
    /\ host = Unset
    /\ hits = Unset
    /\ extracted_data = Unset
    /\ fieldnames = Unset
    /\ csvfile = Unset
    /\ logged = <<>>

OrchIdle ==
    /\ args = Unset
    /\ ts = Unset
    /\ phase = 0
    /\ processes = <<>>
    /\ files = Unset
    /\ df_orig = Unset
    /\ predictions = Unset
    /\ printed = <<>>

EmptyDict == Dict(<<>>)

\* whether a value is a str
IsStr(x) == x.t = "str"

\* dict operations; a dict's v is its (key, value) pairs in insertion order
Keys(d) == {d.v[n][1] : n \in DOMAIN d.v}

\* key in d
Has(d, k) == k \in Keys(d)

\* d[key], for a key of d
Get(d, k) == d.v[CHOOSE n \in DOMAIN d.v : d.v[n][1] = k][2]

\* d[key] = x: an existing key keeps its place, a new key goes last
Put(d, k, x) ==
    IF Has(d, k)
    THEN Dict([n \in DOMAIN d.v |-> IF d.v[n][1] = k THEN <<k, x>> ELSE d.v[n]])
    ELSE Dict(Append(d.v, <<k, x>>))

\* a dict built by assigning the pairs of a sequence in order
RECURSIVE FromPairs(_)
FromPairs(ps) ==
    IF ps = <<>>
    THEN EmptyDict
    ELSE LET n == Len(ps)
         IN  Put(FromPairs(SubSeq(ps, 1, n - 1)), ps[n][1], ps[n][2])

\* an update that leaves the entries d has alone
RECURSIVE UpdateAbsent(_, _)
UpdateAbsent(d, e) ==
    IF e.v = <<>>
    THEN d
    ELSE UpdateAbsent(IF Has(d, e.v[1][1]) THEN d
                      ELSE Put(d, e.v[1][1], e.v[1][2]),
                      Dict(Tail(e.v)))

\* d.update(e)
RECURSIVE Update(_, _)
Update(d, e) ==
    IF e.v = <<>>
    THEN d
    ELSE Update(Put(d, e.v[1][1], e.v[1][2]), Dict(Tail(e.v)))

\* Python's truth value of a parsed value: bool(x)
Truthy(x) ==
    CASE x.t = "None" -> FALSE
      [] x.t = "bool" -> x.v = <<"True">>
      [] x.t = "int"  -> x.v # <<"0">>
      [] OTHER        -> x.v # <<>>

(***************************************************************************)
(* json.loads, for JSON text without fractions, exponents and \u escapes    *)
(***************************************************************************)
Fail(i) == [ok |-> FALSE, v |-> Unset, i |-> i]
Done(x, i) == [ok |-> TRUE, v |-> x, i |-> i]

\* the index of the first c in s at or after i, 0 if there is none
IndexFrom(s, i, c) ==
    LET at == {j \in i..Len(s) : s[j] = c}
    IN  IF at = {} THEN 0 ELSE MinOf(at)

IsDigit(c) == c \in Digits

SkipWs(s, i) == RunEnd(s, i, IsSpace)

DigitsEnd(s, i) == RunEnd(s, i, IsDigit)

\* the number of backslashes right before index j of s
BackslashRun(s, j) ==
    CHOOSE r \in 0..(j - 1) :
        /\ \A k \in (j - r)..(j - 1) : s[k] = "\\"
        /\ r = j - 1 \/ s[j - r - 1] # "\\"

\* the character an escape \c stands for, <<>> for an escape not modelled
\* (\b, \f, \u) or not allowed
Escaped(c) ==
    CASE c \in {"\"", "\\", "/"} -> <<c>>
      [] c = "n" -> <<"\n">>
      [] c = "t" -> <<"\t">>
      [] c = "r" -> <<"\r">>
      [] OTHER   -> <<>>

RECURSIVE Unescape(_)

UnescapeJoin(head, rest) ==
    [ok |-> rest.ok, v |-> IF rest.ok THEN head \o rest.v ELSE <<>>]

\* s without its escapes, the first backslash of s being at b
UnescapeAt(s, b) ==
    IF b = Len(s) \/ Escaped(s[b + 1]) = <<>>
    THEN [ok |-> FALSE, v |-> <<>>]
    ELSE UnescapeJoin(SubSeq(s, 1, b - 1) \o Escaped(s[b + 1]),
                      Unescape(SubSeq(s, b + 2, Len(s))))

\* the text of a string token without its escapes; ok is FALSE for a bad
\* escape
Unescape(s) ==
    IF IndexFrom(s, 1, "\\") = 0
    THEN [ok |-> TRUE, v |-> s]
    ELSE UnescapeAt(s, IndexFrom(s, 1, "\\"))

QuotedValue(i, q, u) == IF u.ok THEN Done(Str(u.v), q + 1) ELSE Fail(i)

\* the string token from the quote at i to the quote at q
QuotedText(s, i, q) ==
    IF \E j \in (i + 1)..(q - 1) : s[j] \in {"\t", "\n", "\r"}
    THEN Fail(i)
    ELSE QuotedValue(i, q, Unescape(SubSeq(s, i + 1, q - 1)))

\* the string token from the quote at i to the first of the closing quotes
QuotedTo(s, i, closing) ==
    IF closing = {}
    THEN Fail(i)
    ELSE QuotedText(s, i, MinOf(closing))

\* a string token opened by the quote at i: up to the next quote that no
\* backslash escapes; a raw control character inside it is an error
QuotedAt(s, i) ==
    QuotedTo(s, i, {j \in (i + 1)..Len(s) :
                      s[j] = "\"" /\ BackslashRun(s, j) % 2 = 0})

\* -?(0|[1-9][0-9]*) at i; int("-0") is 0
JsonNumberAt(s, i) ==
    LET d == IF s[i] = "-" THEN i + 1 ELSE i
        e == IF d <= Len(s) /\ s[d] = "0" THEN d + 1 ELSE DigitsEnd(s, d)
    IN  IF e = d
        THEN Fail(i)
        ELSE IF SubSeq(s, d, e - 1) = <<"0">>
             THEN Done(Num(<<"0">>), e)
             ELSE Done(Num(SubSeq(s, i, e - 1)), e)

JsonWords ==
    << <<<<"n","u","l","l">>, None>>,
       <<<<"t","r","u","e">>, Bool("True")>>,
       <<<<"f","a","l","s","e">>, Bool("False")>> >>

RECURSIVE JsonValueAt(_, _)
RECURSIVE JsonMembers(_, _, _)
RECURSIVE JsonElements(_, _, _)

\* the members of an object from the key at i on, added to acc
JsonMembers(s, i, acc) ==
    IF i > Len(s) \/ s[i] # "\""
    THEN Fail(i)
    ELSE LET k == QuotedAt(s, i)
             c == SkipWs(s, k.i)
         IN  IF ~k.ok \/ c > Len(s) \/ s[c] # ":"
             THEN Fail(i)
             ELSE LET x == JsonValueAt(s, SkipWs(s, c + 1))
                      e == SkipWs(s, x.i)
                  IN  IF ~x.ok \/ e > Len(s)
                      THEN Fail(i)
                      ELSE IF s[e] = "}"
                           THEN Done(Put(acc, k.v, x.v), e + 1)
                           ELSE IF s[e] = ","
                                THEN JsonMembers(s, SkipWs(s, e + 1),
                                                 Put(acc, k.v, x.v))
                                ELSE Fail(i)

\* the elements of an array from the value at i on, appended to acc
JsonElements(s, i, acc) ==
    LET x == JsonValueAt(s, i)
        e == SkipWs(s, x.i)
    IN  IF ~x.ok \/ e > Len(s)
        THEN Fail(i)
        ELSE IF s[e] = "]"
             THEN Done(List(Append(acc, x.v)), e + 1)
             ELSE IF s[e] = ","
                  THEN JsonElements(s, SkipWs(s, e + 1), Append(acc, x.v))
                  ELSE Fail(i)

\* the JSON value that starts at i
JsonValueAt(s, i) ==
    IF i > Len(s)
    THEN Fail(i)
    ELSE CASE s[i] = "\"" -> QuotedAt(s, i)
           [] s[i] = "{" ->
                LET j == SkipWs(s, i + 1)
                IN  IF j <= Len(s) /\ s[j] = "}"
                    THEN Done(EmptyDict, j + 1)
                    ELSE JsonMembers(s, j, EmptyDict)
           [] s[i] = "[" ->
                LET j == SkipWs(s, i + 1)
                IN  IF j <= Len(s) /\ s[j] = "]"
                    THEN Done(List(<<>>), j + 1)
                    ELSE JsonElements(s, j, <<>>)
           [] s[i] = "-" \/ s[i] \in Digits -> JsonNumberAt(s, i)
           [] OTHER ->
                IF \E n \in DOMAIN JsonWords : MatchAt(s, i, JsonWords[n][1])
                THEN LET n == CHOOSE n \in DOMAIN JsonWords :
                                  MatchAt(s, i, JsonWords[n][1])
                     IN  Done(JsonWords[n][2], i + Len(JsonWords[n][1]))
                ELSE Fail(i)

\* json.loads(s): ok, or JSONDecodeError; the whole text must be one value
json_loads(s) ==
    LET x == JsonValueAt(s, SkipWs(s, 1))
    IN  IF x.ok /\ SkipWs(s, x.i) = Len(s) + 1 THEN x ELSE Fail(1)

(***************************************************************************)
(* ast.literal_eval, for expressions made of quoted strings, decimal       *)
(* integers, names, list displays and dict displays.  The text is parsed   *)
(* whole (SyntaxError) before any node is converted; conversion goes left  *)
(* to right, a dict inserting each pair as soon as both sides are          *)
(* converted, and stops at the first node that raises: ValueError for a    *)
(* node that is no literal, TypeError for an unhashable dict key.          *)
(***************************************************************************)
\* the exception raised first
First(e1, e2) == IF e1 # "none" THEN e1 ELSE e2

Lit(ok, ex, x, i) ==
    [ok |-> ok, ex |-> ex, v |-> IF ex = "none" /\ ok THEN x ELSE Unset, i |-> i]

LitFail(i) == Lit(FALSE, "none", Unset, i)

IsBlank(c) == c \in {" ", "\t"}

SkipBlank(s, i) == RunEnd(s, i, IsBlank)

WordEnd(s, i) == RunEnd(s, i, IsWord)

PyWords ==
    << <<<<"N","o","n","e">>, None>>,
       <<<<"T","r","u","e">>, Bool("True")>>,
       <<<<"F","a","l","s","e">>, Bool("False")>> >>

\* a '...' or "..." token opened by the quote at i
PyQuotedAt(s, i) ==
    LET q == IndexFrom(s, i + 1, s[i])
    IN  IF q = 0 \/ \E j \in (i + 1)..(q - 1) : s[j] \in {"\n", "\r"}
        THEN LitFail(i)
        ELSE Lit(TRUE, "none", Str(SubSeq(s, i + 1, q - 1)), q + 1)

\* a decimal integer token at i: no letter may follow it, and only zero may
\* start with 0
PyNumberAt(s, i) ==
    LET e == DigitsEnd(s, i)
        d == SubSeq(s, i, e - 1)
        zero == \A k \in DOMAIN d : d[k] = "0"
    IN  IF (e <= Len(s) /\ IsWord(s[e])) \/ (d[1] = "0" /\ ~zero)
        THEN LitFail(i)
        ELSE Lit(TRUE, "none", Num(IF zero THEN <<"0">> ELSE d), e)

\* a name at i: True, False and None are constants, any other name is a
\* node literal_eval refuses
PyNameAt(s, i) ==
    LET e == WordEnd(s, i)
        w == SubSeq(s, i, e - 1)
    IN  IF \E n \in DOMAIN PyWords : PyWords[n][1] = w
        THEN Lit(TRUE, "none",
                 PyWords[CHOOSE n \in DOMAIN PyWords : PyWords[n][1] = w][2], e)
        ELSE Lit(TRUE, "ValueError", Unset, e)

\* list and dict are unhashable, and so is a tuple that holds one
RECURSIVE Unhashable(_)
Unhashable(x) ==
    \/ x.t \in {"list", "dict"}
    \/ x.t = "tuple" /\ \E n \in DOMAIN x.v : Unhashable(x.v[n])

RECURSIVE LitAt(_, _)
RECURSIVE LitMembers(_, _, _, _)
RECURSIVE LitElements(_, _, _, _)
RECURSIVE LitTupleElements(_, _, _, _)

\* the pairs of a dict display from the key at i on; acc holds the pairs
\* inserted so far and ex the exception raised so far
LitMembers(s, i, acc, ex) ==
    LET k == LitAt(s, i)
        c == SkipBlank(s, k.i)
    IN  IF ~k.ok \/ c > Len(s) \/ s[c] # ":"
        THEN LitFail(i)
        ELSE LET x == LitAt(s, SkipBlank(s, c + 1))
                 e == SkipBlank(s, x.i)
                 ex1 == First(ex, First(k.ex, First(x.ex,
                            IF Unhashable(k.v) THEN "TypeError" ELSE "none")))
                 acc1 == IF ex1 = "none" THEN Put(acc, k.v, x.v) ELSE acc
                 n == IF e <= Len(s) /\ s[e] = ","
                      THEN SkipBlank(s, e + 1) ELSE e
             IN  IF ~x.ok \/ n > Len(s)
                 THEN LitFail(i)
                 ELSE IF s[n] = "}"
                      THEN Lit(TRUE, ex1, acc1, n + 1)
                      ELSE IF n > e
                           THEN LitMembers(s, n, acc1, ex1)
                           ELSE LitFail(i)

\* the elements of a list display from the element at i on
LitElements(s, i, acc, ex) ==
    LET x == LitAt(s, i)
        e == SkipBlank(s, x.i)
        ex1 == First(ex, x.ex)
        acc1 == IF ex1 = "none" THEN Append(acc, x.v) ELSE acc
        n == IF e <= Len(s) /\ s[e] = "," THEN SkipBlank(s, e + 1) ELSE e
    IN  IF ~x.ok \/ n > Len(s)
        THEN LitFail(i)
        ELSE IF s[n] = "]"
             THEN Lit(TRUE, ex1, List(acc1), n + 1)
             ELSE IF n > e
                  THEN LitElements(s, n, acc1, ex1)
                  ELSE LitFail(i)

\* the elements of a parenthesised display from the element at i on: one
\* element with no comma after it is that element, anything else a tuple
LitTupleElements(s, i, acc, ex) ==
    LET x == LitAt(s, i)
        e == SkipBlank(s, x.i)
        ex1 == First(ex, x.ex)
        acc1 == IF ex1 = "none" THEN Append(acc, x.v) ELSE acc
        n == IF e <= Len(s) /\ s[e] = "," THEN SkipBlank(s, e + 1) ELSE e
    IN  IF ~x.ok \/ n > Len(s)
        THEN LitFail(i)
        ELSE IF s[n] = ")"
             THEN Lit(TRUE, ex1,
                      IF acc = <<>> /\ n = e /\ ex1 = "none"
                      THEN x.v ELSE Tuple(acc1), n + 1)
             ELSE IF n > e
                  THEN LitTupleElements(s, n, acc1, ex1)
                  ELSE LitFail(i)

\* the expression that starts at i
LitAt(s, i) ==
    IF i > Len(s)
    THEN LitFail(i)
    ELSE CASE s[i] \in {"'", "\""} -> PyQuotedAt(s, i)
           [] s[i] \in Digits -> PyNumberAt(s, i)
           [] s[i] = "-" ->
                \* -n is a literal for a number n only, which may stand in
                \* parentheses
                LET j == SkipBlank(s, i + 1)
                    x == LitAt(s, j)
                IN  IF /\ j <= Len(s) /\ x.ok
                       /\ \/ s[j] \in Digits
                          \/ /\ s[j] = "(" /\ x.ex = "none" /\ x.v.t = "int"
                             /\ x.v.v[1] # "-"
                    THEN Lit(TRUE, "none",
                             IF x.v.v = <<"0">> THEN x.v
                             ELSE Num(<<"-">> \o x.v.v), x.i)
                    ELSE Lit(x.ok, "ValueError", Unset, x.i)
           [] s[i] = "[" ->
                LET j == SkipBlank(s, i + 1)
                IN  IF j <= Len(s) /\ s[j] = "]"
                    THEN Lit(TRUE, "none", List(<<>>), j + 1)
                    ELSE LitElements(s, j, <<>>, "none")
           [] s[i] = "{" ->
                LET j == SkipBlank(s, i + 1)
                IN  IF j <= Len(s) /\ s[j] = "}"
                    THEN Lit(TRUE, "none", EmptyDict, j + 1)
                    ELSE LitMembers(s, j, EmptyDict, "none")
           [] s[i] = "(" ->
                LET j == SkipBlank(s, i + 1)
                IN  IF j <= Len(s) /\ s[j] = ")"
                    THEN Lit(TRUE, "none", Tuple(<<>>), j + 1)
                    ELSE LitTupleElements(s, j, <<>>, "none")
           [] IsWord(s[i]) -> PyNameAt(s, i)
           [] OTHER -> LitFail(i)

\* ast.literal_eval(s): [ex |-> "none", v |-> the value], or the exception:
\* "SyntaxError", "ValueError" or "TypeError"
literal_eval(s) ==
    LET x == LitAt(s, SkipBlank(s, 1))
    IN  IF x.ok /\ SkipBlank(s, x.i) = Len(s) + 1
        THEN [ex |-> x.ex, v |-> x.v]
        ELSE [ex |-> "SyntaxError", v |-> Unset]

(***************************************************************************)
(* src/web/elasticsearch_extractor.py: parse_message_field                 *)
(***************************************************************************)
\* the terminator without its closing character: (?:,\s|$)
TermLenWithoutCloser(s, j, closer) ==
    CASE j + 1 <= Len(s) /\ s[j] = "," /\ IsSpace(s[j + 1]) -> 2
      [] j = Len(s) + 1 \/ (j = Len(s) /\ s[j] = "\n") -> 0
      [] OTHER -> -1

\* the number of characters (?:,\s|X|$) matches at j, for X the closing
\* character of the pattern ("}" or "]"); -1 if it does not match.  $ matches
\* at the end of the text and before a newline that ends it.
TermLen(s, j, closer) ==
    CASE j + 1 <= Len(s) /\ s[j] = "," /\ IsSpace(s[j + 1]) -> 2
      [] j <= Len(s) /\ s[j] = closer -> 1
      [] j = Len(s) + 1 \/ (j = Len(s) /\ s[j] = "\n") -> 0
      [] OTHER -> -1

NotComma(c) == c # ","

\* [^,]+? followed by the terminator, for a value that starts at v: the
\* first j after v at which the terminator matches, the characters v..j-1
\* not being commas; 0 if there is none
ValueEnd(s, v, closer) ==
    LET ends == {j \in (v + 1)..RunEnd(s, v, NotComma) :
                    TermLen(s, j, closer) >= 0}
    IN  IF ends = {} THEN 0 ELSE MinOf(ends)

\* the match of (\w+)=([^,]+?)(?:,\s|X|$) that starts at i, if there is one
KVMatch(s, i, closer) ==
    LET e == IF IsWord(s[i]) THEN WordEnd(s, i) ELSE i
        j == IF e > i /\ e + 1 <= Len(s) /\ s[e] = "="
             THEN ValueEnd(s, e + 1, closer)
             ELSE 0
    IN  IF j = 0
        THEN [ok |-> FALSE, key |-> <<>>, value |-> <<>>, next |-> i + 1]
        ELSE [ok |-> TRUE,
              key |-> SubSeq(s, i, e - 1),
              value |-> SubSeq(s, e + 1, j - 1),
              next |-> j + TermLen(s, j, closer)]

\* re.findall of that pattern from index i on: the (key, value) groups of the
\* non-overlapping matches, leftmost first
RECURSIVE FindAllKV(_, _, _)
FindAllKV(s, i, closer) ==
    LET at == {k \in i..Len(s) : KVMatch(s, k, closer).ok}
    IN  IF at = {}
        THEN <<>>
        ELSE LET m == KVMatch(s, MinOf(at), closer)
             IN  <<<<m.key, m.value>>>> \o FindAllKV(s, m.next, closer)

NotAvailable == <<"n","o","t"," ","a","v","a","i","l","a","b","l","e">>

\* lines 151-156: the loop over the matches
RECURSIVE StoreMatches(_, _)
StoreMatches(res, ms) ==
    IF ms = <<>>
    THEN res
    ELSE LET value == strip(ms[1][2])
             x == IF lower(value) = NotAvailable THEN None ELSE Str(value)
         IN  StoreMatches(Put(res, Str(lower(ms[1][1])), x), Tail(ms))

EventPropertiesOpen ==
    <<"E","v","e","n","t","P","r","o","p","e","r","t","i","e","s","=","[">>

EventpropPrefix == <<"e","v","e","n","t","p","r","o","p","_">>

\* re.search(r'EventProperties=\[(.*?)\]', s): group 1 of the leftmost
\* match, . matching no newline
EventPropsSearch(s) ==
    LET n == Len(EventPropertiesOpen)
        close(p) == IndexFrom(s, p + n, "]")
        opens(p) == /\ MatchAt(s, p, EventPropertiesOpen)
                    /\ close(p) # 0
                    /\ \A j \in (p + n)..(close(p) - 1) : s[j] # "\n"
        at == {p \in 1..Len(s) : opens(p)}
    IN  IF at = {}
        THEN [found |-> FALSE, group |-> <<>>]
        ELSE LET p == MinOf(at)
             IN  [found |-> TRUE, group |-> SubSeq(s, p + n, close(p) - 1)]

\* lines 163-164: the loop over the EventProperties items
RECURSIVE StoreProps(_, _)
StoreProps(res, ms) ==
    IF ms = <<>>
    THEN res
    ELSE StoreProps(Put(res, Str(EventpropPrefix \o lower(ms[1][1])),
                        Str(strip(ms[1][2]))),
                    Tail(ms))

\* lines 158-166: the EventProperties scan, props being what the search for
\* the span gave
ScanEventProperties(res, props) ==
    IF props.found
    THEN StoreProps(res, FindAllKV(props.group, 1, "]"))
    ELSE res

\* lines 147-168: the regex fallback and the EventProperties scan
regex_fallback(message_str) ==
    ScanEventProperties(
        StoreMatches(EmptyDict, FindAllKV(message_str, 1, "}")),
        EventPropsSearch(message_str))

\* json.loads(message_str), lines 137-140: returned, or JSONDecodeError
TryJson(message_str) == json_loads(message_str)

\* ast.literal_eval(message_str), lines 142-145
TryLiteral(message_str) == literal_eval(message_str)

\* the exceptions of ast.literal_eval that line 144 catches
CaughtByLiteral == {"SyntaxError", "ValueError"}

\* parse_message_field(message_str): the value returned and the strategy that
\* returned it, or the exception that leaves the function
FirstStrategy(j, l, message_str) ==
    IF j.ok
    THEN [ex |-> "none", v |-> j.v, by |-> "json"]
    ELSE IF l.ex = "none"
         THEN [ex |-> "none", v |-> l.v, by |-> "literal"]
         ELSE IF l.ex \in CaughtByLiteral
              THEN [ex |-> "none", v |-> regex_fallback(message_str),
                    by |-> "regex"]
              ELSE [ex |-> l.ex, v |-> Unset, by |-> "none"]

parse_message_field(message_str) ==
    FirstStrategy(TryJson(message_str), TryLiteral(message_str), message_str)

(***************************************************************************)
(* src/web/elasticsearch_extractor.py: extract_from_event_xml              *)
(***************************************************************************)
\* the character classes of the patterns
InClass(c, cls) ==
    CASE cls = "NotQuote" -> c # "'"
      [] cls = "NotBrace" -> c # "}"
      [] cls = "NotLt"    -> c # "<"
      [] cls = "Digit"    -> c \in Digits
      [] cls = "Hex"      -> c \in Digits \cup {"a","b","c","d","e","f",
                                                "A","B","C","D","E","F"}

\* the index after the longest run of characters of a class from i on
ClassEnd(s, i, cls) ==
    LET In(c) == InClass(c, cls)
    IN  RunEnd(s, i, In)

DataOpen == <<"<","D","a","t","a"," ","N","a","m","e","=","'">>
DataMid == <<"'",">">>
DataClose == <<"<","/","D","a","t","a",">">>

\* the match of <Data Name='([^']+)'>([^<]+)</Data> that starts at i
DataMatch(s, i) ==
    LET n == i + Len(DataOpen)
        q == ClassEnd(s, n, "NotQuote")
        v == q + Len(DataMid)
        r == ClassEnd(s, v, "NotLt")
    IN  IF /\ MatchAt(s, i, DataOpen)
           /\ q > n /\ MatchAt(s, q, DataMid)
           /\ r > v /\ MatchAt(s, r, DataClose)
        THEN [ok |-> TRUE, name |-> SubSeq(s, n, q - 1),
              value |-> SubSeq(s, v, r - 1), next |-> r + Len(DataClose)]
        ELSE [ok |-> FALSE, name |-> <<>>, value |-> <<>>, next |-> i + 1]

\* re.findall(data_pattern, xml_str) from index i on
RECURSIVE FindAllData(_, _)
FindAllData(s, i) ==
    LET at == {k \in i..Len(s) : DataMatch(s, k).ok}
    IN  IF at = {}
        THEN <<>>
        ELSE LET m == DataMatch(s, MinOf(at))
             IN  <<<<m.name, m.value>>>> \o FindAllData(s, m.next)

EventdataPrefix == <<"e","v","e","n","t","d","a","t","a","_">>
SystemPrefix == <<"s","y","s","t","e","m","_">>

\* the key with the name as written: f"eventdata_{name}"
DataKeyAsWritten(name) == Str(EventdataPrefix \o name)

\* line 178: f"eventdata_{name.lower()}"
DataKey(name) == Str(EventdataPrefix \o lower(name))

\* lines 177-178: the loop over the Data matches
RECURSIVE StoreData(_, _)
StoreData(res, ms) ==
    IF ms = <<>>
    THEN res
    ELSE StoreData(Put(res, DataKey(ms[1][1]), Str(ms[1][2])), Tail(ms))

\* lines 180-196: each pattern is open, then [^>]* and mid if gap, then a
\* group of lit followed by one or more characters of cls, then close
system_patterns ==
    << [key |-> <<"p","r","o","v","i","d","e","r","_","n","a","m","e">>,
        open |-> <<"<","P","r","o","v","i","d","e","r"," ","N","a","m","e","=","'">>,
        gap |-> FALSE, mid |-> <<>>, lit |-> <<>>,
        cls |-> "NotQuote",
        close |-> <<"'">>],
       [key |-> <<"p","r","o","v","i","d","e","r","_","g","u","i","d">>,
        open |-> <<"<","P","r","o","v","i","d","e","r">>,
        gap |-> TRUE, mid |-> <<"G","u","i","d","=","'","{">>, lit |-> <<>>,
        cls |-> "NotBrace",
        close |-> <<"}","'">>],
       [key |-> <<"e","v","e","n","t","_","i","d">>,
        open |-> <<"<","E","v","e","n","t","I","D",">">>,
        gap |-> FALSE, mid |-> <<>>, lit |-> <<>>,
        cls |-> "Digit",
        close |-> <<"<","/","E","v","e","n","t","I","D",">">>],
       [key |-> <<"v","e","r","s","i","o","n">>,
        open |-> <<"<","V","e","r","s","i","o","n",">">>,
        gap |-> FALSE, mid |-> <<>>, lit |-> <<>>,
        cls |-> "Digit",
        close |-> <<"<","/","V","e","r","s","i","o","n",">">>],
       [key |-> <<"l","e","v","e","l">>,
        open |-> <<"<","L","e","v","e","l",">">>,
        gap |-> FALSE, mid |-> <<>>, lit |-> <<>>,
        cls |-> "Digit",
        close |-> <<"<","/","L","e","v","e","l",">">>],
       [key |-> <<"t","a","s","k">>,
        open |-> <<"<","T","a","s","k",">">>,
        gap |-> FALSE, mid |-> <<>>, lit |-> <<>>,
        cls |-> "Digit",
        close |-> <<"<","/","T","a","s","k",">">>],
       [key |-> <<"o","p","c","o","d","e">>,
        open |-> <<"<","O","p","c","o","d","e",">">>,
        gap |-> FALSE, mid |-> <<>>, lit |-> <<>>,
        cls |-> "Digit",
        close |-> <<"<","/","O","p","c","o","d","e",">">>],
       [key |-> <<"k","e","y","w","o","r","d","s">>,
        open |-> <<"<","K","e","y","w","o","r","d","s",">">>,
        gap |-> FALSE, mid |-> <<>>, lit |-> <<"0","x">>,
        cls |-> "Hex",
        close |-> <<"<","/","K","e","y","w","o","r","d","s",">">>],
       [key |-> <<"c","o","m","p","u","t","e","r">>,
        open |-> <<"<","C","o","m","p","u","t","e","r",">">>,
        gap |-> FALSE, mid |-> <<>>, lit |-> <<>>,
        cls |-> "NotLt",
        close |-> <<"<","/","C","o","m","p","u","t","e","r",">">>],
       [key |-> <<"c","h","a","n","n","e","l">>,
        open |-> <<"<","C","h","a","n","n","e","l",">">>,
        gap |-> FALSE, mid |-> <<>>, lit |-> <<>>,
        cls |-> "NotLt",
        close |-> <<"<","/","C","h","a","n","n","e","l",">">>],
       [key |-> <<"t","i","m","e","_","c","r","e","a","t","e","d">>,
        open |-> <<"<","T","i","m","e","C","r","e","a","t","e","d"," ","S","y","s","t","e","m","T","i","m","e","=","'">>,
        gap |-> FALSE, mid |-> <<>>, lit |-> <<>>,
        cls |-> "NotQuote",
        close |-> <<"'">>],
       [key |-> <<"e","v","e","n","t","_","r","e","c","o","r","d","_","i","d">>,
        open |-> <<"<","E","v","e","n","t","R","e","c","o","r","d","I","D",">">>,
        gap |-> FALSE, mid |-> <<>>, lit |-> <<>>,
        cls |-> "Digit",
        close |-> <<"<","/","E","v","e","n","t","R","e","c","o","r","d","I","D",">">>],
       [key |-> <<"p","r","o","c","e","s","s","_","i","d">>,
        open |-> <<"<","E","x","e","c","u","t","i","o","n"," ","P","r","o","c","e","s","s","I","D","=","'">>,
        gap |-> FALSE, mid |-> <<>>, lit |-> <<>>,
        cls |-> "Digit",
        close |-> <<"'">>],
       [key |-> <<"t","h","r","e","a","d","_","i","d">>,
        open |-> <<"<","E","x","e","c","u","t","i","o","n">>,
        gap |-> TRUE, mid |-> <<"T","h","r","e","a","d","I","D","=","'">>, lit |-> <<>>,
        cls |-> "Digit",
        close |-> <<"'">>],
       [key |-> <<"c","o","r","r","e","l","a","t","i","o","n","_","a","c","t","i","v","i","t","y","_","i","d">>,
        open |-> <<"<","C","o","r","r","e","l","a","t","i","o","n"," ","A","c","t","i","v","i","t","y","I","D","=","'","{">>,
        gap |-> FALSE, mid |-> <<>>, lit |-> <<>>,
        cls |-> "NotBrace",
        close |-> <<"}","'">>] >>

\* the group captured when pattern p matches with its group starting at g,
\* or <<>> (no group is empty); the class never holds the first character
\* of close, so the group is the longest run
GroupAt(s, g, p) ==
    LET c == g + Len(p.lit)
        e == ClassEnd(s, c, p.cls)
    IN  IF MatchAt(s, g, p.lit) /\ e > c /\ MatchAt(s, e, p.close)
        THEN SubSeq(s, g, e - 1)
        ELSE <<>>

\* the group of the match of pattern p that starts at i, or <<>>; the
\* greedy [^>]* prefers the last place where the rest matches
PatternAt(s, i, p) ==
    LET a == i + Len(p.open)
    IN  IF ~MatchAt(s, i, p.open)
        THEN <<>>
        ELSE IF ~p.gap
             THEN GroupAt(s, a, p)
             ELSE LET ms == {m \in a..Len(s) :
                                /\ \A j \in a..(m - 1) : s[j] # ">"
                                /\ MatchAt(s, m, p.mid)
                                /\ GroupAt(s, m + Len(p.mid), p) # <<>>}
                  IN  IF ms = {}
                      THEN <<>>
                      ELSE GroupAt(s, MaxOf(ms) + Len(p.mid), p)

\* re.search(pattern, xml_str): group 1 of the leftmost match, or <<>>
PatternSearch(s, p) ==
    LET at == {i \in 1..Len(s) : PatternAt(s, i, p) # <<>>}
    IN  IF at = {}
        THEN <<>>
        ELSE PatternAt(s, MinOf(at), p)

\* lines 198-201: the loop over system_patterns, from pattern n on
RECURSIVE StoreSystem(_, _, _)
StoreSystem(res, s, n) ==
    IF n > Len(system_patterns)
    THEN res
    ELSE LET p == system_patterns[n]
             g == PatternSearch(s, p)
         IN  StoreSystem(IF g = <<>> THEN res
                         ELSE Put(res, Str(SystemPrefix \o p.key), Str(g)),
                         s, n + 1)

\* extract_from_event_xml(xml_str); re.findall raises TypeError for an
\* argument that is no text
extract_from_event_xml(xml_str) ==
    IF ~IsStr(xml_str)
    THEN [ex |-> "TypeError", v |-> Unset]
    ELSE [ex |-> "none",
          v |-> StoreSystem(StoreData(EmptyDict, FindAllData(xml_str.v, 1)),
                            xml_str.v, 1)]

(***************************************************************************)
(* src/web/elasticsearch_extractor.py: normalize_field_names               *)
(***************************************************************************)
Accountupn == <<"a","c","c","o","u","n","t","u","p","n">>
Timestamp == <<"t","i","m","e","s","t","a","m","p">>

\* '@' in str(value): str() of a container shows the text of every key and
\* value in it
RECURSIVE HasAtSign(_)
HasAtSign(x) ==
    CASE x.t = "str"  -> \E i \in DOMAIN x.v : x.v[i] = "@"
      [] x.t \in {"list", "tuple"} -> \E i \in DOMAIN x.v : HasAtSign(x.v[i])
      [] x.t = "dict" -> \E i \in DOMAIN x.v :
                            HasAtSign(x.v[i][1]) \/ HasAtSign(x.v[i][2])
      [] OTHER        -> FALSE

\* a turn that drops an accountupn value without '@'
NormalizeItemFiltering(normalized, key, value) ==
    IF lower(key.v) = Accountupn
    THEN IF HasAtSign(value)
         THEN Put(normalized, Str(Accountupn), value)
         ELSE normalized
    ELSE Put(normalized, Str(lower(key.v)), value)

\* lines 211-217: one turn of the loop, for the item (key, value)
NormalizeItem(normalized, key, value) ==
    LET normalized_key == lower(key.v)
    IN  IF normalized_key = Accountupn /\ HasAtSign(value)
        THEN Put(normalized, Str(Accountupn), value)
        ELSE IF normalized_key = Timestamp /\ IsStr(value)
             THEN Put(normalized, Str(Timestamp), value)
             ELSE Put(normalized, Str(normalized_key), value)

RECURSIVE NormalizeItems(_, _)
NormalizeItems(normalized, items) ==
    IF items = <<>>
    THEN normalized
    ELSE NormalizeItems(NormalizeItem(normalized, items[1][1], items[1][2]),
                        Tail(items))

\* normalize_field_names(data); data.items() raises AttributeError when
\* data is no dict, and key.lower() when a key is no str
normalize_field_names(data) ==
    IF data.t # "dict" \/ \E k \in Keys(data) : ~IsStr(k)
    THEN [ex |-> "AttributeError", v |-> Unset]
    ELSE [ex |-> "none", v |-> NormalizeItems(EmptyDict, data.v)]

(***************************************************************************)
(* src/web/elasticsearch_extractor.py: extract_data_from_log               *)
(***************************************************************************)
\* lines 42-56
FIELDS_OF_INTEREST ==
    << <<"i","d">>,
       <<"o","r","g","i","d">>,
       <<"i","n","c","i","d","e","n","t","i","d">>,
       <<"a","l","e","r","t","i","d">>,
       <<"t","i","m","e","s","t","a","m","p">>,
       <<"d","e","t","e","c","t","o","r","i","d">>,
       <<"a","l","e","r","t","t","i","t","l","e">>,
       <<"c","a","t","e","g","o","r","y">>,
       <<"m","i","t","r","e","t","e","c","h","n","i","q","u","e","s">>,
       <<"i","n","c","i","d","e","n","t","g","r","a","d","e">>,
       <<"a","c","t","i","o","n","g","r","o","u","p","e","d">>,
       <<"a","c","t","i","o","n","g","r","a","n","u","l","a","r">>,
       <<"e","n","t","i","t","y","t","y","p","e">>,
       <<"e","v","i","d","e","n","c","e","r","o","l","e">>,
       <<"d","e","v","i","c","e","i","d">>,
       <<"s","h","a","2","5","6">>,
       <<"i","p","a","d","d","r","e","s","s">>,
       <<"u","r","l">>,
       <<"a","c","c","o","u","n","t","s","i","d">>,
       <<"a","c","c","o","u","n","t","u","p","n">>,
       <<"a","c","c","o","u","n","t","o","b","j","e","c","t","i","d">>,
       <<"a","c","c","o","u","n","t","n","a","m","e">>,
       <<"d","e","v","i","c","e","n","a","m","e">>,
       <<"n","e","t","w","o","r","k","m","e","s","s","a","g","e","i","d">>,
       <<"e","m","a","i","l","c","l","u","s","t","e","r","i","d">>,
       <<"r","e","g","i","s","t","r","y","k","e","y">>,
       <<"r","e","g","i","s","t","r","y","v","a","l","u","e","n","a","m","e">>,
       <<"r","e","g","i","s","t","r","y","v","a","l","u","e","d","a","t","a">>,
       <<"a","p","p","l","i","c","a","t","i","o","n","i","d">>,
       <<"a","p","p","l","i","c","a","t","i","o","n","n","a","m","e">>,
       <<"o","a","u","t","h","a","p","p","l","i","c","a","t","i","o","n","i","d">>,
       <<"t","h","r","e","a","t","f","a","m","i","l","y">>,
       <<"f","i","l","e","n","a","m","e">>,
       <<"f","o","l","d","e","r","p","a","t","h">>,
       <<"r","e","s","o","u","r","c","e","i","d","n","a","m","e">>,
       <<"r","e","s","o","u","r","c","e","t","y","p","e">>,
       <<"r","o","l","e","s">>,
       <<"o","s","f","a","m","i","l","y">>,
       <<"o","s","v","e","r","s","i","o","n">>,
       <<"a","n","t","i","s","p","a","m","d","i","r","e","c","t","i","o","n">>,
       <<"s","u","s","p","i","c","i","o","n","l","e","v","e","l">>,
       <<"l","a","s","t","v","e","r","d","i","c","t">>,
       <<"c","o","u","n","t","r","y","c","o","d","e">>,
       <<"s","t","a","t","e">>,
       <<"c","i","t","y">>,
       <<"e","v","e","n","t","i","d">>,
       <<"e","v","e","n","t","t","y","p","e">>,
       <<"c","h","a","n","n","e","l">>,
       <<"s","o","u","r","c","e">>,
       <<"g","u","i","d">>,
       <<"d","a","t","a","t","y","p","e">>,
       <<"m","a","c","a","d","d","r","e","s","s">>,
       <<"p","o","w","e","r","s","h","e","l","l","h","a","s","h">>,
       <<"i","n","d","e","x">> >>

K_id == Str(<<"_","i","d">>)
K_index == Str(<<"_","i","n","d","e","x">>)
K_source == Str(<<"_","s","o","u","r","c","e">>)
K_at_timestamp == Str(<<"@","t","i","m","e","s","t","a","m","p">>)
K_at_version == Str(<<"@","v","e","r","s","i","o","n">>)
K_agent == Str(<<"a","g","e","n","t">>)
K_log == Str(<<"l","o","g">>)
K_file == Str(<<"f","i","l","e">>)
K_log_type == Str(<<"l","o","g","_","t","y","p","e">>)
K_message == Str(<<"m","e","s","s","a","g","e">>)
K_eventxml == Str(<<"e","v","e","n","t","x","m","l">>)

AgentPrefix == <<"a","g","e","n","t","_">>
LogFilePrefix == <<"l","o","g","_","f","i","l","e","_">>
EventPrefix == <<"e","v","e","n","t","_">>

Ok(x) == [ex |-> "none", v |-> x]
Raise(e) == [ex |-> e, v |-> Unset]

\* str(key) inside an f-string, for the keys a dict can have
fstr(x) ==
    CASE x.t = "None" -> <<"N","o","n","e">>
      [] x.t = "bool" -> IF x.v = <<"True">> THEN <<"T","r","u","e">>
                         ELSE <<"F","a","l","s","e">>
      [] OTHER        -> x.v

\* `k in x` for a str k: "yes", "no", or "TypeError" when x is no container;
\* in a str it is a substring test, in a list or a tuple an element test
In(k, x) ==
    CASE x.t = "dict" -> IF Has(x, k) THEN "yes" ELSE "no"
      [] x.t \in {"list", "tuple"} -> IF \E n \in DOMAIN x.v : x.v[n] = k
                         THEN "yes" ELSE "no"
      [] x.t = "str"  -> IF \E i \in 1..(Len(x.v) + 1) : MatchAt(x.v, i, k.v)
                         THEN "yes" ELSE "no"
      [] OTHER        -> "TypeError"

\* x[k] for a str k that is `in` x: only a dict can be indexed by a str
Subscript(x, k) == IF x.t = "dict" THEN Ok(Get(x, k)) ELSE Raise("TypeError")

\* for field in fields: if field in src: res[field] = src[field]
RECURSIVE CopyFields(_, _, _)
CopyFields(res, src, fields) ==
    IF fields = <<>>
    THEN Ok(res)
    ELSE LET field == fields[1]
             has == In(field, src)
             x == Subscript(src, field)
         IN  IF has = "TypeError"
             THEN Raise("TypeError")
             ELSE IF has = "no"
                  THEN CopyFields(res, src, Tail(fields))
                  ELSE IF x.ex # "none"
                       THEN x
                       ELSE CopyFields(Put(res, field, x.v), src, Tail(fields))

RECURSIVE FlattenItems(_, _, _)
FlattenItems(res, prefix, items) ==
    IF items = <<>>
    THEN res
    ELSE FlattenItems(Put(res, Str(prefix \o fstr(items[1][1])), items[1][2]),
                      prefix, Tail(items))

\* for key, value in d.items(): res[f"{prefix}{key}"] = value
Flatten(res, prefix, d) ==
    IF d.t # "dict"
    THEN Raise("AttributeError")
    ELSE Ok(FlattenItems(res, prefix, d.v))

\* lines 237-239
FlattenAgent(res, source) ==
    LET has == In(K_agent, source)
        x == Subscript(source, K_agent)
    IN  CASE has = "TypeError" -> Raise("TypeError")
          [] has = "no" -> Ok(res)
          [] OTHER -> IF x.ex # "none" THEN x
                      ELSE Flatten(res, AgentPrefix, x.v)

\* lines 241-243
FlattenLogFile(res, source) ==
    LET has == In(K_log, source)
        log == Subscript(source, K_log)
        hasfile == In(K_file, log.v)
        file == Subscript(log.v, K_file)
    IN  CASE has = "TypeError" -> Raise("TypeError")
          [] has = "no" -> Ok(res)
          [] log.ex # "none" -> log
          [] hasfile = "TypeError" -> Raise("TypeError")
          [] hasfile = "no" -> Ok(res)
          [] file.ex # "none" -> file
          [] OTHER -> Flatten(res, LogFilePrefix, file.v)

\* the envelope fields when the record is not begun empty but from the
\* record of the call before
EnvelopeCarrying(h) ==
    LET begun == IF extracted_data.t = "list" /\ extracted_data.v # <<>>
                 THEN extracted_data.v[Len(extracted_data.v)]
                 ELSE EmptyDict
        ids == CopyFields(begun, h, <<K_id, K_index>>)
        has == In(K_source, h)
        source == Subscript(h, K_source)
        stamps == CopyFields(ids.v, source.v, <<K_at_timestamp, K_at_version>>)
        agent == FlattenAgent(stamps.v, source.v)
        file == FlattenLogFile(agent.v, source.v)
    IN  CASE ids.ex # "none" -> ids
          [] has = "no" -> ids
          [] source.ex # "none" -> source
          [] stamps.ex # "none" -> stamps
          [] agent.ex # "none" -> agent
          [] file.ex # "none" -> file
          [] OTHER -> CopyFields(file.v, source.v, <<K_log_type>>)

\* lines 225-246: the fields taken from the envelope of the hit
Envelope(h) ==
    LET ids == CopyFields(EmptyDict, h, <<K_id, K_index>>)
        has == In(K_source, h)
        source == Subscript(h, K_source)
        stamps == CopyFields(ids.v, source.v, <<K_at_timestamp, K_at_version>>)
        agent == FlattenAgent(stamps.v, source.v)
        file == FlattenLogFile(agent.v, source.v)
    IN  CASE ids.ex # "none" -> ids
          [] has = "no" -> ids
          [] source.ex # "none" -> source
          [] stamps.ex # "none" -> stamps
          [] agent.ex # "none" -> agent
          [] file.ex # "none" -> file
          [] OTHER -> CopyFields(file.v, source.v, <<K_log_type>>)

\* a resolution in the order eventdata_<name>, event_<name>, name
ResolveReversed(message, field) ==
    CASE Has(message, Str(EventdataPrefix \o field)) ->
            Get(message, Str(EventdataPrefix \o field))
      [] Has(message, Str(EventPrefix \o field)) ->
            Get(message, Str(EventPrefix \o field))
      [] Has(message, Str(field)) -> Get(message, Str(field))
      [] OTHER -> Unset

\* lines 257-262: the value of a known field, or Unset if it has no source
Resolve(message, field) ==
    CASE Has(message, Str(field)) -> Get(message, Str(field))
      [] Has(message, Str(EventPrefix \o field)) ->
            Get(message, Str(EventPrefix \o field))
      [] Has(message, Str(EventdataPrefix \o field)) ->
            Get(message, Str(EventdataPrefix \o field))
      [] OTHER -> Unset

\* lines 256-262: the loop over FIELDS_OF_INTEREST, from field n on
RECURSIVE ResolveKnown(_, _, _)
ResolveKnown(res, message, n) ==
    IF n > Len(FIELDS_OF_INTEREST)
    THEN res
    ELSE LET field == FIELDS_OF_INTEREST[n]
             x == Resolve(message, field)
         IN  ResolveKnown(IF x = Unset THEN res ELSE Put(res, Str(field), x),
                          message, n + 1)

\* a merge that overwrites the keys the record has
RECURSIVE MergeRestOverwriting(_, _)
MergeRestOverwriting(res, items) ==
    IF items = <<>>
    THEN res
    ELSE MergeRestOverwriting(Put(res, items[1][1], items[1][2]), Tail(items))

\* lines 263-265: the message keys the record does not have yet
RECURSIVE MergeRest(_, _)
MergeRest(res, items) ==
    IF items = <<>>
    THEN res
    ELSE MergeRest(IF Has(res, items[1][1]) THEN res
                   ELSE Put(res, items[1][1], items[1][2]),
                   Tail(items))

\* lines 256-265
Populate(res, message) ==
    MergeRest(ResolveKnown(res, message, 1), message.v)

(***************************************************************************)
(* src/transform_generated_log.py: clean_value                             *)
(***************************************************************************)
\* the list literal of line 32, as written
PLACEHOLDERS ==
    { <<"n","o","t"," ","a","v","a","i","l","a","b","l","e">>,
      <<"n","a">>,
      <<"n","o","n","e">>,
      <<"-">>,
      <<"U","n","k","n","o","w","n">> }

\* re.sub(r'[\{\}\[\]]', '', s)
RemoveBrackets(s) == SelectSeq(s, LAMBDA c : c \notin {"{", "}", "[", "]"})

\* str(val) for the values clean_value is given
str(x) == x.v

clean_value(x) ==
    IF x.t = "nan"
    THEN <<>>
    ELSE LET s == RemoveBrackets(strip(str(x)))
         IN  IF lower(s) \in PLACEHOLDERS THEN <<>> ELSE s

(***************************************************************************)
(* clean_value applied to a value, and to its own result                   *)
(***************************************************************************)
MaxPad == 2

\* the placeholder tokens the specification lists, in lower case
ClosedSet ==
    { <<"n","o","t"," ","a","v","a","i","l","a","b","l","e">>,
      <<"n","a">>,
      <<"n","o","n","e">>,
      <<"-">>,
      <<"u","n","k","n","o","w","n">> }

\* every letter-casing of s
RECURSIVE Casings(_)
Casings(s) ==
    IF s = <<>>
    THEN {<<>>}
    ELSE LET c == Head(s)
             heads == IF c \in DOMAIN UpperOf THEN {c, UpperOf[c]} ELSE {c}
         IN  {<<h>> \o r : h \in heads, r \in Casings(Tail(s))}

PadChars == {" ", "{", "]"}

\* the texts of at most n pad characters
Pads(n) == UNION {[1..k -> PadChars] : k \in 0..n}

Cores == { <<"a">>, <<"n","a">>, <<"N","o","n","e">>, <<"-">>,
           <<"a"," ","b">>, <<"[","n","a","}">> }

CleanInputs ==
    {NaN}
    \cup {Str(c) : c \in UNION {Casings(tok) : tok \in ClosedSet}}
    \cup {Str(p \o c \o q) : p \in Pads(MaxPad), c \in Cores, q \in Pads(MaxPad)}

InitClean ==
    /\ pc = "clean"
    /\ val \in CleanInputs
    /\ cleaned = Unset
    /\ recleaned = Unset
    /\ hit = Unset
    /\ origin = Unset
    /\ result = Unset
    /\ decoded = Unset
    /\ strategy = "none"
    /\ message_data = Unset
    /\ xml_data = Unset
    /\ exc = NoException
    /\ host = Unset
    /\ hits = Unset
    /\ extracted_data = Unset
    /\ fieldnames = Unset
    /\ csvfile = Unset
    /\ logged = <<>>
    /\ OrchIdle

\* transform_row: new_row[target] = clean_value(row[orig])
CleanOnce ==
    /\ pc = "clean"
    /\ cleaned' = Str(clean_value(val))
    /\ pc' = "cleaned"
    /\ UNCHANGED <<val, recleaned, hit, origin, result, decoded, strategy,
                   message_data, xml_data, exc>>
    /\ UNCHANGED <<runvars, orchvars>>

\* clean_value applied to a value that was already cleaned
CleanAgain ==
    /\ pc = "cleaned"
    /\ recleaned' = Str(clean_value(cleaned))
    /\ pc' = "recleaned"
    /\ UNCHANGED <<val, cleaned, hit, origin, result, decoded, strategy,
                   message_data, xml_data, exc>>
    /\ UNCHANGED <<runvars, orchvars>>

NextClean == CleanOnce \/ CleanAgain

SpecClean == InitClean /\ [][NextClean]_vars

\* C1: every placeholder token of the closed set {"not available", "na",
\* "none", "-", "unknown"}, in every letter-casing, is cleaned to the empty
\* string.
C1_PlaceholdersCleanToEmpty ==
    (pc # "clean" /\ val.t = "str" /\ lower(val.v) \in ClosedSet)
        => cleaned = Str(<<>>)

\* C2: clean_value is idempotent: cleaning a cleaned value changes nothing.
C2_CleanIdempotent ==
    pc = "recleaned" => recleaned = cleaned

(***************************************************************************)
(* extract_data_from_log(hit), step by step                                *)
(***************************************************************************)
Raised(type, fn) == [type |-> type, fn |-> fn]

\* source['message'] of a hit that has one
MessageOf(h) == Subscript(Get(h, K_source), K_message)

\* lines 225-246
ExtractEnvelope ==
    /\ pc = "start"
    /\ \E r \in {Envelope(hit)} :
           IF r.ex # "none"
           THEN /\ exc' = Raised(r.ex, "extract_data_from_log")
                /\ pc' = "raised"
                /\ UNCHANGED result
           ELSE /\ result' = r.v
                /\ pc' = IF /\ In(K_source, hit) = "yes"
                            /\ In(K_message, Get(hit, K_source)) = "yes"
                         THEN "message" ELSE "done"
                /\ UNCHANGED exc
    /\ UNCHANGED <<val, cleaned, recleaned, hit, origin, decoded, strategy,
                   message_data, xml_data>>
    /\ UNCHANGED <<runvars, orchvars>>

\* lines 248-250: source['message'][:200] raises TypeError for a message that
\* cannot be sliced, and json.loads (line 138) raises it for a list
ParseMessage ==
    /\ pc = "message"
    /\ \E m \in {MessageOf(hit)} :
           IF m.ex # "none" \/ m.v.t \notin {"str", "list"}
           THEN /\ exc' = Raised("TypeError", "extract_data_from_log")
                /\ pc' = "raised"
                /\ UNCHANGED <<decoded, strategy, message_data>>
           ELSE IF m.v.t = "list"
           THEN /\ exc' = Raised("TypeError", "parse_message_field")
                /\ pc' = "raised"
                /\ UNCHANGED <<decoded, strategy, message_data>>
           ELSE \E r \in {parse_message_field(m.v.v)} :
                IF r.ex # "none"
                THEN /\ exc' = Raised(r.ex, "parse_message_field")
                     /\ pc' = "raised"
                     /\ UNCHANGED <<decoded, strategy, message_data>>
                ELSE /\ decoded' = r.v
                     /\ strategy' = r.by
                     /\ message_data' = r.v
                     /\ pc' = "parsed"
                     /\ UNCHANGED exc
    /\ UNCHANGED <<val, cleaned, recleaned, hit, origin, result, xml_data>>
    /\ UNCHANGED <<runvars, orchvars>>

\* lines 251-252
Normalize ==
    /\ pc = "parsed"
    /\ IF ~Truthy(message_data)
       THEN /\ pc' = "done"
            /\ UNCHANGED <<message_data, exc>>
       ELSE \E n \in {normalize_field_names(message_data)} :
                IF n.ex # "none"
                THEN /\ exc' = Raised(n.ex, "normalize_field_names")
                     /\ pc' = "raised"
                     /\ UNCHANGED message_data
                ELSE /\ message_data' = n.v
                     /\ pc' = "normalized"
                     /\ UNCHANGED exc
    /\ UNCHANGED <<val, cleaned, recleaned, hit, origin, result, decoded,
                   strategy, xml_data>>
    /\ UNCHANGED <<runvars, orchvars>>

\* lines 253-255
ExtractXml ==
    /\ pc = "normalized"
    /\ IF ~Has(message_data, K_eventxml)
       THEN /\ pc' = "merged"
            /\ UNCHANGED <<message_data, xml_data, exc>>
       ELSE \E x \in {extract_from_event_xml(Get(message_data, K_eventxml))} :
                IF x.ex # "none"
                THEN /\ exc' = Raised(x.ex, "extract_from_event_xml")
                     /\ pc' = "raised"
                     /\ UNCHANGED <<message_data, xml_data>>
                ELSE /\ xml_data' = x.v
                     /\ message_data' = Update(message_data, x.v)
                     /\ pc' = "merged"
                     /\ UNCHANGED exc
    /\ UNCHANGED <<val, cleaned, recleaned, hit, origin, result, decoded,
                   strategy>>
    /\ UNCHANGED <<runvars, orchvars>>

\* lines 256-266
PopulateRecord ==
    /\ pc = "merged"
    /\ result' = Populate(result, message_data)
    /\ pc' = "done"
    /\ UNCHANGED <<val, cleaned, recleaned, hit, origin, decoded, strategy,
                   message_data, xml_data, exc>>
    /\ UNCHANGED <<runvars, orchvars>>

Next ==
    \/ ExtractEnvelope
    \/ ParseMessage
    \/ Normalize
    \/ ExtractXml
    \/ PopulateRecord

(***************************************************************************)
(* The hits.  A message is the JSON text or the Python literal text of a   *)
(* mapping, a list of key=value tokens, or some other text; origin keeps   *)
(* what the text was made from.                                            *)
(***************************************************************************)
MaxFields == 2
MaxTokens == 2
MaxData == 2

\* sep.join(parts)
RECURSIVE Join(_, _)
Join(parts, sep) ==
    IF parts = <<>>
    THEN <<>>
    ELSE IF Len(parts) = 1
         THEN parts[1]
         ELSE parts[1] \o sep \o Join(Tail(parts), sep)

CommaSpace == <<",", " ">>

\* the JSON escape of a character that needs one
JsonEscape(c) ==
    CASE c = "\"" -> <<"\\", "\"">>
      [] c = "\\" -> <<"\\", "\\">>
      [] c = "\n" -> <<"\\", "n">>
      [] c = "\r" -> <<"\\", "r">>
      [] c = "\t" -> <<"\\", "t">>

NeedsEscape(s) == {k \in DOMAIN s : s[k] \in {"\"", "\\", "\n", "\r", "\t"}}

RECURSIVE JsonEscaped(_)

JsonEscapedAt(s, k) ==
    SubSeq(s, 1, k - 1) \o JsonEscape(s[k])
        \o JsonEscaped(SubSeq(s, k + 1, Len(s)))

\* the text s with its characters escaped as json.dumps does
JsonEscaped(s) ==
    IF NeedsEscape(s) = {}
    THEN s
    ELSE JsonEscapedAt(s, MinOf(NeedsEscape(s)))

\* the JSON text of None, of a bool or of an int
JsonScalar(x) ==
    CASE x.t = "None" -> <<"n","u","l","l">>
      [] x.t = "bool" -> IF x.v = <<"True">> THEN <<"t","r","u","e">>
                         ELSE <<"f","a","l","s","e">>
      [] OTHER        -> x.v

\* whether json.dumps(x) returns: a dict key that is a tuple raises TypeError
RECURSIVE Serializable(_)
Serializable(x) ==
    CASE x.t \in {"list", "tuple"} ->
            \A n \in DOMAIN x.v : Serializable(x.v[n])
      [] x.t = "dict" ->
            \A n \in DOMAIN x.v : /\ x.v[n][1].t # "tuple"
                                   /\ Serializable(x.v[n][2])
      [] OTHER -> TRUE

\* json.dumps(x), for ASCII text and a serializable x: a tuple is written as
\* a list, and a key that is no str as the str of its JSON text
RECURSIVE json_dumps(_)
json_dumps(x) ==
    CASE x.t = "str"  -> <<"\"">> \o JsonEscaped(x.v) \o <<"\"">>
      [] x.t \in {"list", "tuple"} ->
            <<"[">> \o Join([n \in DOMAIN x.v |-> json_dumps(x.v[n])],
                            CommaSpace) \o <<"]">>
      [] x.t = "dict" ->
            <<"{">> \o Join([n \in DOMAIN x.v |->
                                (IF IsStr(x.v[n][1])
                                 THEN json_dumps(x.v[n][1])
                                 ELSE json_dumps(Str(JsonScalar(x.v[n][1]))))
                                \o <<":", " ">> \o json_dumps(x.v[n][2])],
                            CommaSpace) \o <<"}">>
      [] OTHER        -> JsonScalar(x)

\* repr(x), for text that needs no escape: a str that holds ' is quoted
\* with "
RECURSIVE py_repr(_)
py_repr(x) ==
    CASE x.t = "str"  -> LET quote == IF \E i \in DOMAIN x.v : x.v[i] = "'"
                                      THEN <<"\"">> ELSE <<"'">>
                         IN  quote \o x.v \o quote
      [] x.t = "list" ->
            <<"[">> \o Join([n \in DOMAIN x.v |-> py_repr(x.v[n])],
                            CommaSpace) \o <<"]">>
      [] x.t = "tuple" ->
            <<"(">> \o Join([n \in DOMAIN x.v |-> py_repr(x.v[n])],
                            CommaSpace)
                \o (IF Len(x.v) = 1 THEN <<",">> ELSE <<>>) \o <<")">>
      [] x.t = "dict" ->
            <<"{">> \o Join([n \in DOMAIN x.v |->
                                py_repr(x.v[n][1]) \o <<":", " ">>
                                \o py_repr(x.v[n][2])],
                            CommaSpace) \o <<"}">>
      [] OTHER        -> fstr(x)

\* the sequences of at most n members of S
SeqsUpTo(S, n) == UNION {[1..k -> S] : k \in 0..n}

\* the text key=value
Token(tok) == tok[1] \o <<"=">> \o tok[2]

\* the text of a token list: k1=v1, k2=v2
TokenList(toks) == Join([n \in DOMAIN toks |-> Token(toks[n])], CommaSpace)

\* the tokens of the EventProperties span and the span
SpanToks == << <<<<"a">>, <<"1">>>>, <<<<"B","b">>, <<"2">>>> >>
Span == EventPropertiesOpen \o TokenList(SpanToks) \o <<"]">>

\* the Data elements of an event XML text
DataElems ==
    { <<<<"U","s","e","r">>, <<"a","l","i","c","e">>>>,
      <<<<"U","S","E","R">>, <<"b","o","b">>>>,
      <<<<"U","s","e","r">>, <<"b","o","b">>>>,
      <<<<"I","p">>, <<"1","0",".","0",".","0",".","1">>>>,
      <<<<"I","p">>, <<>>>> }

DataText(e) == DataOpen \o e[1] \o DataMid \o e[2] \o DataClose

SystemTexts ==
    {   <<>>,
        <<"<","S","y","s","t","e","m",">","<","P","r","o","v","i","d","e",
          "r"," ","N","a","m","e","=","'","P","r","o","v","'"," ","G","u",
          "i","d","=","'","{","a","b","-","1","}","'","/",">","<","E","v",
          "e","n","t","I","D",">","4","6","2","4","<","/","E","v","e","n",
          "t","I","D",">","<","V","e","r","s","i","o","n",">","0","<","/",
          "V","e","r","s","i","o","n",">","<","L","e","v","e","l",">","4",
          "<","/","L","e","v","e","l",">","<","T","a","s","k",">","1","2",
          "<","/","T","a","s","k",">","<","O","p","c","o","d","e",">","0",
          "<","/","O","p","c","o","d","e",">","<","K","e","y","w","o","r",
          "d","s",">","0","x","8","0","a","F","<","/","K","e","y","w","o",
          "r","d","s",">","<","T","i","m","e","C","r","e","a","t","e","d",
          " ","S","y","s","t","e","m","T","i","m","e","=","'","2","0","2",
          "4","-","0","1","-","0","1","'","/",">","<","E","v","e","n","t",
          "R","e","c","o","r","d","I","D",">","7","<","/","E","v","e","n",
          "t","R","e","c","o","r","d","I","D",">","<","C","o","r","r","e",
          "l","a","t","i","o","n"," ","A","c","t","i","v","i","t","y","I",
          "D","=","'","{","c","-","2","}","'","/",">","<","E","x","e","c",
          "u","t","i","o","n"," ","P","r","o","c","e","s","s","I","D","=",
          "'","4","'"," ","T","h","r","e","a","d","I","D","=","'","8","8",
          "'","/",">","<","C","h","a","n","n","e","l",">","S","e","c","u",
          "r","i","t","y","<","/","C","h","a","n","n","e","l",">","<","C",
          "o","m","p","u","t","e","r",">","P","C","1","<","/","C","o","m",
          "p","u","t","e","r",">","<","/","S","y","s","t","e","m",">">>,
        <<"<","S","y","s","t","e","m",">","<","P","r","o","v","i","d","e",
          "r"," ","G","u","i","d","=","'","{","g","}","'"," ","N","a","m",
          "e","=","'","n","'","/",">","<","E","v","e","n","t","I","D",">",
          "1","2","a","<","/","E","v","e","n","t","I","D",">","<","E","x",
          "e","c","u","t","i","o","n"," ","T","h","r","e","a","d","I","D",
          "=","'","5","'","/",">","<","/","S","y","s","t","e","m",">">> }

XmlText(system, elems) ==
    <<"<","E","v","e","n","t",">">> \o system
    \o <<"<","E","v","e","n","t","D","a","t","a",">">>
    \o Join([n \in DOMAIN elems |-> DataText(elems[n])], <<>>)
    \o <<"<","/","E","v","e","n","t","D","a","t","a",">">>
    \o <<"<","/","E","v","e","n","t",">">>

\* the fields a message mapping is made of
SpanPair == <<Str(<<"x">>), Str(Span)>>

DocPairs ==
    { <<Str(<<"I","n","c","i","d","e","n","t","I","d">>), Str(<<"1">>)>>,
      <<Str(<<"T","i","m","e","s","t","a","m","p">>), Num(<<"1","2","3">>)>>,
      <<Str(<<"t","i","m","e","s","t","a","m","p">>), Str(<<"t","1">>)>>,
      <<Str(<<"a">>), None>>,
      <<Str(<<"A">>), List(<<Num(<<"1">>), Num(<<"2">>)>>)>>,
      <<Str(<<"A","c","c","o","u","n","t","U","p","n">>), Str(<<"u","@","d">>)>>,
      <<Str(<<"a","c","c","o","u","n","t","u","p","n">>), Str(<<"n","o">>)>>,
      <<Str(<<"u","s","e","r">>),
        Dict(<< <<Str(<<"N","a","m","e">>), Str(<<"n">>)>> >>)>>,
      <<Str(<<"e","v","e","n","t","d","a","t","a","_","u","s","e","r">>),
        Str(<<"m","s","g">>)>>,
      <<Str(<<"e","v","e","n","t","_","i","d">>), Str(<<"7">>)>>,
      <<Str(<<"a","g","e","n","t","_","n","a","m","e">>), Str(<<"m">>)>>,
      <<Str(<<"_","i","d">>), Str(<<"9">>)>>,
      <<Str(<<"i","d">>), Str(<<"5">>)>>,
      <<Str(<<"e","v","e","n","t","d","a","t","a","_","i","d">>), Str(<<"8">>)>>,
      SpanPair }

DistinctKeys(ps) == \A m, n \in DOMAIN ps : m # n => ps[m][1] # ps[n][1]

Docs == {Dict(ps) : ps \in {s \in SeqsUpTo(DocPairs, MaxFields) : DistinctKeys(s)}}

\* the tokens of a key=value message
KVKeys == { <<"k","e","y","1">>, <<"K","e","y","1">>, <<"k","e","y","2">> }
KVValues == { <<"f","o","o">>, <<"b","a","r">>, <<" ","x"," ">>,
              <<"N","O","T"," ","A","v","a","i","l","a","b","l","e">> }
KVTokens == {<<k, x>> : k \in KVKeys, x \in KVValues}

\* texts that are JSON or Python literals but no mapping
ScalarTexts ==
    { <<"1","2","3">>,
      <<"\"","a","=","1","\"">>,
      <<"[","1",","," ","2","]">>,
      <<"'","a","=","1","'">>,
      <<"n","u","l","l">>,
      <<"N","o","n","e">>,
      <<"0">>,
      <<"[","]">> }

\* texts with no recognizable structure
FreeTexts ==
    { <<"f","o","o"," ","b","a","r"," ","b","a","z">>,
      <<"{","[","1","]",":"," ","2","}">>,
      <<"{","[","1","]",":"," ","f","o","o","}">>,
      <<"{","1",":"," ","2","}">>,
      <<"{","k","=","v","}">>,
      <<"a","=","b","}","c">>,
      <<"a","=",","," ","b","=","1">>,
      <<>>,
      Span }

\* fields of a message that has an event XML text too, under the keys the
\* XML pass produces
XmlNamesakes ==
    { <<Str(<<"e","v","e","n","t","d","a","t","a","_","u","s","e","r">>), Str(<<"m","s","g">>)>>,
      <<Str(<<"e","v","e","n","t","d","a","t","a","_","i","d">>), Str(<<"8">>)>>,
      <<Str(<<"S","y","s","t","e","m","_","L","e","v","e","l">>), Str(<<"9">>)>> }

NamesakeElems ==
    { <<<<"U","s","e","r">>, <<"a","l","i","c","e">>>>,
      <<<<"I","d">>, <<"4","2">>>> }

\* the mappings with an event XML text before or after such a field
NamesakeDocs ==
    UNION {{Dict(<< <<Str(<<"E","v","e","n","t","X","M","L">>),
                      Str(XmlText(system, elems))>>, pair >>),
            Dict(<< pair, <<Str(<<"E","v","e","n","t","X","M","L">>),
                            Str(XmlText(system, elems))>> >>)} :
               system \in SystemTexts, elems \in SeqsUpTo(NamesakeElems, 1),
               pair \in XmlNamesakes}

Origin(kind, doc, toks, props) ==
    [kind |-> kind, doc |-> doc, toks |-> toks, props |-> props]

\* the tokens of the EventProperties span a mapping carries
PropsOf(d) == IF \E n \in DOMAIN d.v : d.v[n] = SpanPair THEN SpanToks ELSE <<>>

\* a hit with the usual envelope around a message
HitWith(message) ==
    Dict(<< <<K_id, Str(<<"h","1">>)>>,
            <<K_index, Str(<<"l","o","g","s">>)>>,
            <<K_source,
              Dict(<< <<K_at_timestamp, Str(<<"t","0">>)>>,
                      <<K_message, message>> >>)>> >>)

\* hits whose envelope has sub-fields, or lacks parts
EnvelopeHits ==
    LET name == Str(<<"n","a","m","e">>)
        Name == Str(<<"N","a","m","e">>)
        path == Str(<<"p","a","t","h">>)
        agent == Dict(<< <<Name, Str(<<"a">>)>>, <<name, Str(<<"b">>)>> >>)
        agent1 == Dict(<< <<Name, Str(<<"a">>)>> >>)
        log == Dict(<< <<K_file, Dict(<< <<path, Str(<<"/","x">>)>> >>)>> >>)
        msg == Str(json_dumps(Dict(<< <<Str(<<"a","g","e","n","t","_","n","a","m","e">>),
                                        Str(<<"m">>)>> >>)))
    IN  { EmptyDict,
          Dict(<< <<K_id, Str(<<"h","2">>)>> >>),
          Dict(<< <<K_source, EmptyDict>> >>),
          Dict(<< <<K_source, Dict(<< <<K_agent, agent>> >>)>> >>),
          Dict(<< <<K_source, Dict(<< <<K_agent, agent1>>, <<K_log, log>>,
                                      <<K_log_type, Str(<<"w">>)>>,
                                      <<K_at_version, Str(<<"1">>)>>,
                                      <<K_message, msg>> >>)>> >>),
          Dict(<< <<K_source, Dict(<< <<K_log, EmptyDict>>,
                                      <<K_message, msg>> >>)>> >>) }

\* hits with a part that is not of the expected type
MalformedHits ==
    LET EventXML == Str(<<"E","v","e","n","t","X","M","L">>)
        Source(field, x) == Dict(<< <<K_source, Dict(<< <<field, x>> >>)>> >>)
    IN  { Source(K_agent, Str(<<"x">>)),
          Source(K_agent, None),
          Source(K_log, Dict(<< <<K_file, Str(<<"x">>)>> >>)),
          Source(K_log, Str(<<"p","r","o","f","i","l","e">>)),
          Source(K_log, Num(<<"1">>)),
          Source(K_message, Num(<<"5">>)),
          Source(K_message, None),
          Source(K_message, List(<<Str(<<"a">>)>>)),
          Dict(<< <<K_source, None>> >>),
          Dict(<< <<K_source, Str(<<"m","e","s","s","a","g","e">>)>> >>),
          Dict(<< <<K_source, List(<<K_message>>)>> >>),
          HitWith(Str(json_dumps(Dict(<< <<EventXML, None>> >>)))),
          HitWith(Str(json_dumps(Dict(<< <<EventXML, Num(<<"5">>)>> >>)))),
          HitWith(Str(json_dumps(Dict(<< <<EventXML, List(<<>>)>> >>)))) }

Inputs ==
    {[hit |-> HitWith(Str(json_dumps(d))),
      origin |-> Origin("json", d, <<>>, PropsOf(d))] : d \in Docs}
    \cup
    {[hit |-> HitWith(Str(py_repr(d))),
      origin |-> Origin("literal", d, <<>>, PropsOf(d))] : d \in Docs}
    \cup
    {[hit |-> HitWith(Str(TokenList(toks) \o closer)),
      origin |-> Origin("kv", Unset, toks, <<>>)] :
        toks \in SeqsUpTo(KVTokens, MaxTokens) \ {<<>>},
        closer \in {<<>>, <<"}">>}}
    \cup
    {[hit |-> HitWith(Str(TokenList(toks) \o CommaSpace \o Span)),
      origin |-> Origin("kv", Unset, toks, SpanToks)] :
        toks \in SeqsUpTo(KVTokens, 1) \ {<<>>}}
    \cup
    {[hit |-> HitWith(Str(json_dumps(
                  Dict(<< <<Str(<<"E","v","e","n","t","X","M","L">>),
                            Str(XmlText(system, elems))>> >>)))),
      origin |-> Origin("xml", Unset, elems, <<>>)] :
        system \in SystemTexts, elems \in SeqsUpTo(DataElems, MaxData)}
    \cup
    {[hit |-> HitWith(Str(json_dumps(d))),
      origin |-> Origin("namesake", d, <<>>, <<>>)] : d \in NamesakeDocs}
    \cup
    {[hit |-> HitWith(Str(text)), origin |-> Origin("scalar", Unset, <<>>, <<>>)] :
        text \in ScalarTexts}
    \cup
    {[hit |-> HitWith(Str(text)), origin |-> Origin("text", Unset, <<>>, <<>>)] :
        text \in FreeTexts}
    \cup
    {[hit |-> h, origin |-> Origin("envelope", Unset, <<>>, <<>>)] :
        h \in EnvelopeHits}
    \cup
    {[hit |-> h, origin |-> Origin("malformed", Unset, <<>>, <<>>)] :
        h \in MalformedHits}

Init ==
    /\ pc = "start"
    /\ \E input \in Inputs : hit = input.hit /\ origin = input.origin
    /\ val = Unset
    /\ cleaned = Unset
    /\ recleaned = Unset
    /\ result = Unset
    /\ decoded = Unset
    /\ strategy = "none"
    /\ message_data = Unset
    /\ xml_data = Unset
    /\ exc = NoException
    /\ host = Unset
    /\ hits = Unset
    /\ extracted_data = Unset
    /\ fieldnames = Unset
    /\ csvfile = Unset
    /\ logged = <<>>
    /\ OrchIdle

Spec == Init /\ [][Next]_vars

(***************************************************************************)
(* extract_data_from_log(hit) as one call                                  *)
(***************************************************************************)
\* lines 254-265, given the value extract_from_event_xml returned
RecordWithXml(res, message, x) ==
    IF x.ex # "none"
    THEN Raise(x.ex)
    ELSE Ok(Populate(res, Update(message, x.v)))

\* lines 253-265, for the normalized message data
RecordOfNormalized(res, message) ==
    IF Has(message, K_eventxml)
    THEN RecordWithXml(res, message,
                       extract_from_event_xml(Get(message, K_eventxml)))
    ELSE Ok(Populate(res, message))

\* lines 251-265, given the value parse_message_field returned
RecordOfParsed(res, r) ==
    IF r.ex # "none"
    THEN Raise(r.ex)
    ELSE IF ~Truthy(r.v)
         THEN Ok(res)
         ELSE IF normalize_field_names(r.v).ex # "none"
              THEN Raise(normalize_field_names(r.v).ex)
              ELSE RecordOfNormalized(res, normalize_field_names(r.v).v)

\* lines 248-265, given source['message']: only a str or a list can be
\* sliced, and only a str can be parsed
RecordOfMessage(res, m) ==
    IF m.ex # "none" \/ ~IsStr(m.v)
    THEN Raise("TypeError")
    ELSE RecordOfParsed(res, parse_message_field(m.v.v))

\* lines 248-266, given the fields taken from the envelope
RecordOfEnvelope(h, r) ==
    IF r.ex # "none"
    THEN r
    ELSE IF /\ In(K_source, h) = "yes"
            /\ In(K_message, Get(h, K_source)) = "yes"
         THEN RecordOfMessage(r.v, MessageOf(h))
         ELSE r

\* extract_data_from_log(hit): the record, or the exception it raises
extract_data_from_log(h) == RecordOfEnvelope(h, Envelope(h))

(***************************************************************************)
(* src/web/elasticsearch_extractor.py: save_to_csv.  The table is modelled *)
(* as the rows csv.reader reads back: a row is the sequence of its cells'  *)
(* texts (the quoting of a cell inside the file is csv's own business).    *)
(***************************************************************************)
\* the characters of the texts in code point order
CodePoints ==
    <<"\t", "\n", "\r", " ", "!", "\"", "#", "$", "%", "&", "'", "(", ")",
      "*", "+", ",", "-", ".", "/", "0", "1", "2", "3", "4", "5", "6", "7",
      "8", "9", ":", ";", "<", "=", ">", "?", "@", "A", "B", "C", "D", "E",
      "F", "G", "H", "I", "J", "K", "L", "M", "N", "O", "P", "Q", "R", "S",
      "T", "U", "V", "W", "X", "Y", "Z", "[", "\\", "]", "^", "_", "a",
      "b", "c", "d", "e", "f", "g", "h", "i", "j", "k", "l", "m", "n", "o",
      "p", "q", "r", "s", "t", "u", "v", "w", "x", "y", "z", "{", "|", "}",
      "~">>

\* the rank of a character in code point order
ord(c) == CHOOSE n \in DOMAIN CodePoints : CodePoints[n] = c

\* a < b for two str: the first difference decides, a proper prefix is less
StrLess(a, b) ==
    \E k \in 1..Len(b) :
        /\ \A j \in 1..(k - 1) : j <= Len(a) /\ a[j] = b[j]
        /\ k > Len(a) \/ ord(a[k]) < ord(b[k])

\* sorted(S), for a set of str
RECURSIVE sorted(_)
sorted(S) ==
    IF S = {}
    THEN <<>>
    ELSE <<CHOOSE x \in S : \A y \in S \ {x} : StrLess(x.v, y.v)>>
             \o sorted(S \ {CHOOSE x \in S : \A y \in S \ {x} : StrLess(x.v, y.v)})

\* lines 273-275
AllFields(data) == UNION {Keys(data[n]) : n \in DOMAIN data}

\* lines 276-280: the loop over FIELDS_OF_INTEREST, from field n on
RECURSIVE KnownFields(_, _, _)
KnownFields(known, all_fields, n) ==
    IF n > Len(FIELDS_OF_INTEREST)
    THEN [fields |-> known, all_fields |-> all_fields]
    ELSE IF Str(FIELDS_OF_INTEREST[n]) \in all_fields
         THEN KnownFields(Append(known, Str(FIELDS_OF_INTEREST[n])),
                          all_fields \ {Str(FIELDS_OF_INTEREST[n])}, n + 1)
         ELSE KnownFields(known, all_fields, n + 1)

\* the other keys appended in descending order
ExtendSortedReversed(known) ==
    known.fields \o [n \in 1..Cardinality(known.all_fields) |->
                        sorted(known.all_fields)[Cardinality(known.all_fields) + 1 - n]]

\* line 281
ExtendSorted(known) == known.fields \o sorted(known.all_fields)

\* lines 273-281: the column names
FieldNames(data) == ExtendSorted(KnownFields(<<>>, AllFields(data), 1))

\* line 285: writeheader()
HeaderRow(names) == [n \in DOMAIN names |-> names[n].v]

\* line 288: record.get(field, '')
Cell(record, field) ==
    IF Has(record, field) THEN Get(record, field) ELSE Str(<<>>)

\* lines 290-291 raise TypeError when json.dumps does
RowRaises(record, names) ==
    \E n \in DOMAIN names :
        /\ Cell(record, names[n]).t \in {"dict", "list"}
        /\ ~Serializable(Cell(record, names[n]))

\* the text csv.writer writes for a value: nothing for None, the str itself,
\* str(value) for any other value
CellText(x) ==
    CASE x.t = "None" -> <<>>
      [] x.t = "str"  -> x.v
      [] OTHER        -> py_repr(x)

\* lines 289-292: the cell written for a value
CellWritten(x) ==
    IF x.t \in {"dict", "list"} THEN json_dumps(x) ELSE CellText(x)

\* lines 288-292: the row written for a record
RowOf(record, names) ==
    [n \in DOMAIN names |-> CellWritten(Cell(record, names[n]))]

\* the first record, whatever was written
FirstRecord(data, rows) == data[1]

\* line 286: the record of this turn of `for record in data`, when the file
\* holds the header and one row for each record before it
RecordToWrite(data, rows) == data[Len(rows)]

(***************************************************************************)
(* src/web/elasticsearch_extractor.py: process_file_directly               *)
(***************************************************************************)
K_hits == Str(<<"h","i","t","s">>)

\* the outcome of lines 306-308 for a loaded response: the value of hits,
\* "invalid" for a response without hits, or the exception raised
Found(x) == [ex |-> "none", valid |-> TRUE, v |-> x]
Invalid == [ex |-> "none", valid |-> FALSE, v |-> Unset]
Thrown(e) == [ex |-> e, valid |-> FALSE, v |-> Unset]

\* whether a value has a len() and can be iterated
Sized(x) == x.t \in {"list", "tuple", "dict", "str"}

\* lines 306-308, for a response that has 'hits': 'hits' in response['hits'],
\* response['hits']['hits'] and len(hits)
InnerHits(inner) ==
    IF inner.ex # "none" \/ In(K_hits, inner.v) = "TypeError"
    THEN Thrown("TypeError")
    ELSE IF In(K_hits, inner.v) = "no"
         THEN Invalid
         ELSE IF Subscript(inner.v, K_hits).ex # "none"
                 \/ ~Sized(Subscript(inner.v, K_hits).v)
              THEN Thrown("TypeError")
              ELSE Found(Subscript(inner.v, K_hits).v)

\* lines 306-308
ResponseHits(response) ==
    CASE In(K_hits, response) = "TypeError" -> Thrown("TypeError")
      [] In(K_hits, response) = "no" -> Invalid
      [] OTHER -> InnerHits(Subscript(response, K_hits))

\* what `for hit in hits` iterates over: the elements of a list, the keys of
\* a dict, the characters of a str
Iterated(x) ==
    CASE x.t = "dict" -> [n \in DOMAIN x.v |-> x.v[n][1]]
      [] x.t = "str"  -> [n \in DOMAIN x.v |-> Str(<<x.v[n]>>)]
      [] OTHER        -> x.v

\* a turn that puts the hit of the line first
AppendLineFirst(acc, line) ==
    IF line # <<>> /\ json_loads(line).ok
    THEN <<json_loads(line).v>> \o acc
    ELSE acc

\* lines 323-329 for one line of the file
AppendLine(acc, line) ==
    IF line # <<>> /\ json_loads(line).ok
    THEN Append(acc, json_loads(line).v)
    ELSE acc

\* lines 320-329: the hits of the lines of the text
RECURSIVE NdjsonHits(_, _)
NdjsonHits(acc, text) ==
    IF text = <<>>
    THEN acc
    ELSE IF IndexFrom(text, 1, "\n") = 0
         THEN AppendLine(acc, strip(text))
         ELSE NdjsonHits(AppendLine(acc,
                             strip(SubSeq(text, 1, IndexFrom(text, 1, "\n") - 1))),
                         SubSeq(text, IndexFrom(text, 1, "\n") + 1, Len(text)))

\* lines 328-329 for one line of the file
LineNotice(acc, line) ==
    IF line # <<>> /\ ~json_loads(line).ok
    THEN Append(acc, <<"DEBUG", "Failed to parse line as JSON">>)
    ELSE acc

\* lines 320-329: the records handed to the logger for the lines of the text
RECURSIVE NdjsonNotices(_, _)
NdjsonNotices(acc, text) ==
    IF text = <<>>
    THEN acc
    ELSE IF IndexFrom(text, 1, "\n") = 0
         THEN LineNotice(acc, strip(text))
         ELSE NdjsonNotices(LineNotice(acc,
                                strip(SubSeq(text, 1, IndexFrom(text, 1, "\n") - 1))),
                            SubSeq(text, IndexFrom(text, 1, "\n") + 1, Len(text)))

(***************************************************************************)
(* main, process_file_directly and save_to_csv, step by step               *)
(***************************************************************************)
Debug(message) == <<"DEBUG", message>>
Info(message) == <<"INFO", message>>
Warning(message) == <<"WARNING", message>>
Error(message) == <<"ERROR", message>>

\* the records the handlers emit of those handed to the logger: its level is
\* INFO (line 32) unless --debug sets it to DEBUG (lines 348-349)
Emitted(debug, records) ==
    SelectSeq(records, LAMBDA rec : debug \/ rec[1] # "DEBUG")

\* line 249: whether the hit has a message that can be sliced, which is
\* logged before it is parsed
MessageLogged(h) ==
    /\ Envelope(h).ex = "none"
    /\ In(K_source, h) = "yes"
    /\ In(K_message, Get(h, K_source)) = "yes"
    /\ MessageOf(h).ex = "none"
    /\ MessageOf(h).v.t \in {"str", "list", "tuple"}

\* the records extract_data_from_log hands to the logger for a hit
ExtractionLog(h) ==
    IF MessageLogged(h) THEN <<Debug("Processing message")>> ELSE <<>>

\* the loops of lines 310, 333 and 362: whether the loop is over, and the
\* hit of its next turn
ExhaustedAfterOne(xs, done) == done # <<>> \/ xs = <<>>
Exhausted(xs, done) == Len(done) = Len(xs)

FirstHit(xs, done) == xs[1]
NextHit(xs, done) == xs[Len(done) + 1]

\* the output file: absent, old (as an earlier run left it), open (opened
\* for writing, so truncated) or closed (written by this run)
Absent == [state |-> "absent", rows |-> <<>>]
OldFile == [state |-> "old", rows |-> << << <<"o","l","d">> >> >>]

\* lines 345-356 and 358
Main ==
    /\ pc = "main"
    /\ IF host.from_file \/ host.isfile
       THEN IF ~host.isfile
            THEN /\ logged' = logged \o <<Info("Script started"),
                                    Error("File not found")>>
                 /\ pc' = "exit"
            ELSE /\ logged' = Append(logged, Info("Script started"))
                 /\ pc' = "process_file"
       ELSE /\ logged' = Append(logged, Info("Script started"))
            /\ pc' = "connect"
    /\ UNCHANGED <<host, hits, extracted_data, fieldnames, csvfile, exc>>
    /\ UNCHANGED <<extractvars, orchvars>>

\* connect_to_elasticsearch, lines 75-101
ConnectToElasticsearch ==
    /\ pc = "connect"
    /\ IF host.reachable
       THEN /\ logged' = logged \o <<Info("Connecting to Elasticsearch"),
                               Info("Connected to Elasticsearch cluster")>>
            /\ pc' = "query"
       ELSE /\ logged' = logged \o <<Info("Connecting to Elasticsearch"),
                               Error("Failed to connect to Elasticsearch")>>
            /\ pc' = "exit"
    /\ UNCHANGED <<host, hits, extracted_data, fieldnames, csvfile, exc>>
    /\ UNCHANGED <<extractvars, orchvars>>

\* query_elasticsearch, lines 103-130, and line 361
QueryElasticsearch ==
    /\ pc = "query"
    /\ IF host.answers
       THEN /\ hits' = List(host.docs)
            /\ extracted_data' = List(<<>>)
            /\ logged' = logged \o <<Info("Querying Elasticsearch index"),
                               Info("Retrieved documents")>>
            /\ pc' = "extract_es"
       ELSE /\ logged' = logged \o <<Info("Querying Elasticsearch index"),
                               Error("Failed to query Elasticsearch")>>
            /\ pc' = "exit"
            /\ UNCHANGED <<hits, extracted_data>>
    /\ UNCHANGED <<host, fieldnames, csvfile, exc>>
    /\ UNCHANGED <<extractvars, orchvars>>

\* process_file_directly, lines 302-309 and 314-318, with the handlers of
\* lines 316-318 and 341-343: open() raises OSError for a file that cannot be
\* read, json.load raises JSONDecodeError
LoadResponse ==
    /\ pc = "process_file"
    /\ IF ~host.readable
       THEN /\ logged' = logged \o Emitted(host.debug,
                               <<Info("Processing file"),
                                 Error("Failed to process file"),
                                 Debug("Exception details")>>)
            /\ pc' = "finish"
            /\ UNCHANGED <<hits, extracted_data>>
       ELSE \E response \in {json_loads(host.text)} :
            IF ~response.ok
            THEN /\ logged' = logged \o <<Info("Processing file"),
                                    Error("Failed to parse JSON in file"),
                                    Error("Trying to process as NDJSON")>>
                 /\ pc' = "ndjson"
                 /\ UNCHANGED <<hits, extracted_data>>
            ELSE \E found \in {ResponseHits(response.v)} :
                 IF found.ex # "none"
                 THEN /\ logged' = logged \o Emitted(host.debug,
                                         <<Info("Processing file"),
                                           Error("Failed to process file"),
                                           Debug("Exception details")>>)
                      /\ pc' = "finish"
                      /\ UNCHANGED <<hits, extracted_data>>
                 ELSE IF ~found.valid
                 THEN /\ logged' = logged \o
                            <<Info("Processing file"),
                              Error("Invalid Elasticsearch response format")>>
                      /\ pc' = "finish"
                      /\ UNCHANGED <<hits, extracted_data>>
                 ELSE /\ hits' = found.v
                      /\ extracted_data' = List(<<>>)
                      /\ logged' = logged \o <<Info("Processing file"),
                                         Info("Found records in file")>>
                      /\ pc' = "extract_file"
    /\ UNCHANGED <<host, fieldnames, csvfile, exc>>
    /\ UNCHANGED <<extractvars, orchvars>>

\* lines 319-332 and 337-340: the second open() of the file may fail
ReadNdjson ==
    /\ pc = "ndjson"
    /\ \E opened \in BOOLEAN :
       IF ~opened
       THEN /\ logged' = Append(logged, Error("Failed to process file as NDJSON"))
            /\ pc' = "finish"
            /\ UNCHANGED <<hits, extracted_data>>
       ELSE \E lines \in {NdjsonHits(<<>>, host.text)} :
            \E notices \in {Emitted(host.debug, NdjsonNotices(<<>>, host.text))} :
            IF lines # <<>>
            THEN /\ hits' = List(lines)
                 /\ extracted_data' = List(<<>>)
                 /\ logged' = logged \o notices \o
                        <<Info("Processed records from NDJSON file")>>
                 /\ pc' = "extract_ndjson"
            ELSE /\ logged' = logged \o notices \o
                        <<Error("No valid JSON records found in file")>>
                 /\ pc' = "finish"
                 /\ UNCHANGED <<hits, extracted_data>>
    /\ UNCHANGED <<host, fieldnames, csvfile, exc>>
    /\ UNCHANGED <<extractvars, orchvars>>

\* one turn of the loop of lines 310-312, 333-335 or 362-364: an exception
\* of extract_data_from_log goes to the handler of line 341, to the one of
\* line 339, or out of main
ExtractHit ==
    /\ pc \in {"extract_file", "extract_ndjson", "extract_es"}
    /\ ~Exhausted(Iterated(hits), extracted_data.v)
    /\ \E h \in {NextHit(Iterated(hits), extracted_data.v)} :
       \E record \in {extract_data_from_log(h)} :
       IF record.ex = "none"
       THEN /\ extracted_data' = List(Append(extracted_data.v, record.v))
            /\ logged' = logged \o Emitted(host.debug, ExtractionLog(h))
            /\ UNCHANGED <<pc, exc>>
       ELSE IF pc = "extract_file"
       THEN /\ logged' = logged \o Emitted(host.debug,
                    ExtractionLog(h) \o <<Error("Failed to process file"),
                                          Debug("Exception details")>>)
            /\ pc' = "finish"
            /\ UNCHANGED <<extracted_data, exc>>
       ELSE IF pc = "extract_ndjson"
       THEN /\ logged' = logged \o Emitted(host.debug,
                    ExtractionLog(h) \o
                        <<Error("Failed to process file as NDJSON")>>)
            /\ pc' = "finish"
            /\ UNCHANGED <<extracted_data, exc>>
       ELSE /\ exc' = Raised(record.ex, "extract_data_from_log")
            /\ logged' = logged \o Emitted(host.debug, ExtractionLog(h))
            /\ pc' = "raised"
            /\ UNCHANGED extracted_data
    /\ UNCHANGED <<host, hits, fieldnames, csvfile>>
    /\ UNCHANGED <<extractvars, orchvars>>

\* save_to_csv, lines 270-284, called when the loop is over: open() may
\* fail, and the handler of lines 294-296 logs it
SaveToCsv ==
    /\ pc \in {"extract_file", "extract_ndjson", "extract_es"}
    /\ Exhausted(Iterated(hits), extracted_data.v)
    /\ IF extracted_data.v = <<>>
       THEN /\ logged' = Append(logged, Warning("No data to save"))
            /\ pc' = "finish"
            /\ UNCHANGED <<fieldnames, csvfile>>
       ELSE \E names \in {FieldNames(extracted_data.v)} :
            \E opened \in BOOLEAN :
            /\ fieldnames' = List(names)
            /\ IF opened
               THEN /\ csvfile' = [state |-> "open", rows |-> <<>>]
                    /\ logged' = Append(logged, Info("Saving records"))
                    /\ pc' = "header"
               ELSE /\ logged' = logged \o Emitted(host.debug,
                                       <<Info("Saving records"),
                                         Error("Failed to save data to CSV"),
                                         Debug("Exception details")>>)
                    /\ pc' = "finish"
                    /\ UNCHANGED csvfile
    /\ UNCHANGED <<host, hits, extracted_data, exc>>
    /\ UNCHANGED <<extractvars, orchvars>>

\* line 285: the write may fail; the with statement closes the file
WriteHeader ==
    /\ pc = "header"
    /\ \E written \in BOOLEAN :
       IF written
       THEN /\ csvfile' = [csvfile EXCEPT !.rows = <<HeaderRow(fieldnames.v)>>]
            /\ pc' = "rows"
            /\ UNCHANGED logged
       ELSE /\ csvfile' = [csvfile EXCEPT !.state = "closed"]
            /\ logged' = logged \o Emitted(host.debug,
                               <<Error("Failed to save data to CSV"),
                                 Debug("Exception details")>>)
            /\ pc' = "finish"
    /\ UNCHANGED <<host, hits, extracted_data, fieldnames, exc>>
    /\ UNCHANGED <<extractvars, orchvars>>

\* one turn of the loop of lines 286-292: json.dumps may raise, and the
\* write may fail
WriteRow ==
    /\ pc = "rows"
    /\ Len(csvfile.rows) <= Len(extracted_data.v)
    /\ \E written \in BOOLEAN :
       IF /\ written
          /\ ~RowRaises(RecordToWrite(extracted_data.v, csvfile.rows), fieldnames.v)
       THEN /\ csvfile' = [csvfile EXCEPT !.rows =
                   Append(@, RowOf(RecordToWrite(extracted_data.v, csvfile.rows),
                                   fieldnames.v))]
            /\ UNCHANGED <<pc, logged>>
       ELSE /\ csvfile' = [csvfile EXCEPT !.state = "closed"]
            /\ logged' = logged \o Emitted(host.debug,
                               <<Error("Failed to save data to CSV"),
                                 Debug("Exception details")>>)
            /\ pc' = "finish"
    /\ UNCHANGED <<host, hits, extracted_data, fieldnames, exc>>
    /\ UNCHANGED <<extractvars, orchvars>>

\* the end of the with statement and line 293
CloseFile ==
    /\ pc = "rows"
    /\ Len(csvfile.rows) = Len(extracted_data.v) + 1
    /\ csvfile' = [csvfile EXCEPT !.state = "closed"]
    /\ logged' = Append(logged, Info("Data successfully saved"))
    /\ pc' = "finish"
    /\ UNCHANGED <<host, hits, extracted_data, fieldnames, exc>>
    /\ UNCHANGED <<extractvars, orchvars>>

\* main, lines 366-370
Finish ==
    /\ pc = "finish"
    /\ logged' = logged \o <<Info("Script completed"), Info("Total execution time"),
                       Info("Output saved to")>>
    /\ pc' = "completed"
    /\ UNCHANGED <<host, hits, extracted_data, fieldnames, csvfile, exc>>
    /\ UNCHANGED <<extractvars, orchvars>>

NextRun ==
    \/ Main
    \/ ConnectToElasticsearch
    \/ QueryElasticsearch
    \/ LoadResponse
    \/ ReadNdjson
    \/ ExtractHit
    \/ SaveToCsv
    \/ WriteHeader
    \/ WriteRow
    \/ CloseFile
    \/ Finish

(***************************************************************************)
(* The runs explored: the file or the service that --host designates, and  *)
(* the hits it holds                                                       *)
(***************************************************************************)
\* the most hits in a file or a response
MaxHits == 2

\* a message that is the JSON text of an object
JsonMessage ==
    <<"{","\"","i","n","c","i","d","e","n","t","i","d","\"",":"," ","\"",
      "1","\"",","," ","\"","t","i","m","e","s","t","a","m","p","\"",":",
      " ","\"","2","0","2","4","-","0","1","-","0","1","T","0","0",":","0",
      "0",":","0","0","\"","}">>

\* a message that no strategy decodes
FreeMessage ==
    <<"f","o","o"," ","b","a","r"," ","b","a","z">>

\* a message that is neither JSON nor a Python literal, because a list is no
\* dict key, and that holds no key=value token
ListKeyMessage ==
    <<"{","[","1","]",":"," ","2","}">>

\* a message that is a Python literal with a tuple, None and a nested dict
LiteralMessage ==
    <<"{","'","r","o","l","e","s","'",":"," ","(","'","a","d","m","i","n",
      "'",","," ","'","u","s","e","r","'",")",","," ","'","Z","e","t","a",
      "'",":"," ","N","o","n","e",","," ","'","c","a","t","e","g","o","r",
      "y","'",":"," ","{","'","a","'",":"," ","[","1","]","}","}">>

\* a message of key=value tokens
TokenMessage ==
    <<"a","l","p","h","a","=","1",","," ","u","r","l","=","x">>

\* a message that is a Python literal with a nested dict keyed by a tuple
TupleKeyMessage ==
    <<"{","'","n","'",":"," ","{","(","1",","," ","2",")",":"," ","3","}",
      "}">>

\* a hit with an _id and a message
HitOf(id, message) ==
    Dict(<< <<K_id, Str(id)>>,
            <<K_source, Dict(<< <<K_message, Str(message)>> >>)>> >>)

\* hits: decoded by each strategy, not decoded, empty, and two that make
\* extract_data_from_log raise
RunHits ==
    { HitOf(<<"1">>, JsonMessage),
      HitOf(<<"2">>, FreeMessage),
      HitOf(<<"3">>, ListKeyMessage),
      Dict(<< <<K_source,
                Dict(<< <<K_agent, Dict(<< <<Str(<<"N","a","m","e">>),
                                            Str(<<"a">>)>> >>)>>,
                        <<K_message, Str(LiteralMessage)>> >>)>> >>),
      HitOf(<<"5">>, TokenMessage),
      EmptyDict,
      HitOf(<<"7">>, TupleKeyMessage),
      Dict(<< <<K_source, Dict(<< <<K_agent, Str(<<"x">>)>> >>)>> >>) }

Batches == SeqsUpTo(RunHits, MaxHits)

\* the text of a file that holds the batch as one response document
ResponseText(batch) ==
    json_dumps(Dict(<< <<K_hits, Dict(<< <<K_hits, List(batch)>> >>)>> >>))

\* the text of a file that holds the batch one hit a line
NdjsonText(batch) == Join([n \in DOMAIN batch |-> json_dumps(batch[n])], <<"\n">>)

NotJson == <<"n","o","t"," ","j","s","o","n">>

\* texts that are no response: no text, text that is no JSON, JSON that has
\* no hits or whose hits are no list, and lines of which some are no JSON
OddTexts ==
    { <<>>,
      NotJson,
      json_dumps(Num(<<"5">>)),
      json_dumps(Str(<<"h","i","t","s">>)),
      json_dumps(Dict(<< <<Str(<<"t","o","o","k">>), Num(<<"1">>)>> >>)),
      json_dumps(Dict(<< <<K_hits, Num(<<"5">>)>> >>)),
      json_dumps(Dict(<< <<K_hits, Dict(<< <<K_hits, Num(<<"5">>)>> >>)>> >>)),
      json_dumps(Dict(<< <<K_hits, Dict(<< <<K_hits,
            Dict(<< <<Str(<<"a">>), Num(<<"1">>)>> >>)>> >>)>> >>)),
      json_dumps(HitOf(<<"1">>, JsonMessage)) \o <<"\n", " ", "\n">> \o NotJson
          \o <<"\n">> \o json_dumps(HitOf(<<"2">>, FreeMessage)) \o <<"\n">> }

\* what --host designates: a path that is no file, a file, or a service
NoFile ==
    [from_file |-> TRUE, isfile |-> FALSE, readable |-> FALSE, text |-> <<>>,
     reachable |-> FALSE, answers |-> FALSE, docs |-> <<>>, debug |-> FALSE]

File(from_file, readable, text) ==
    [from_file |-> from_file, isfile |-> TRUE, readable |-> readable,
     text |-> text, reachable |-> FALSE, answers |-> FALSE, docs |-> <<>>,
     debug |-> FALSE]

Service(reachable, answers, docs) ==
    [from_file |-> FALSE, isfile |-> FALSE, readable |-> FALSE, text |-> <<>>,
     reachable |-> reachable, answers |-> answers, docs |-> docs,
     debug |-> FALSE]

SourcesOf(batches) ==
    {NoFile, Service(FALSE, FALSE, <<>>), Service(TRUE, FALSE, <<>>)}
    \cup {Service(TRUE, TRUE, batch) : batch \in batches}
    \cup {File(from_file, FALSE, NotJson) : from_file \in BOOLEAN}
    \cup {File(from_file, TRUE, text) : from_file \in BOOLEAN, text \in OddTexts}
    \cup {File(TRUE, TRUE, ResponseText(batch)) : batch \in batches}
    \cup {File(TRUE, TRUE, NdjsonText(batch)) : batch \in batches}

\* the longest batch of a run with --debug
MaxDebugHits == 1

\* the command lines: a source without --debug, or a source with a batch of
\* at most MaxDebugHits hits with --debug
Hosts ==
    SourcesOf(Batches)
    \cup {[source EXCEPT !.debug = TRUE] :
              source \in SourcesOf(SeqsUpTo(RunHits, MaxDebugHits))}

InitRun ==
    /\ pc = "main"
    /\ host \in Hosts
    /\ hits = Unset
    /\ extracted_data = Unset
    /\ fieldnames = Unset
    /\ csvfile \in {Absent, OldFile}
    /\ logged = <<>>
    /\ exc = NoException
    /\ val = Unset
    /\ cleaned = Unset
    /\ recleaned = Unset
    /\ hit = Unset
    /\ origin = Unset
    /\ result = Unset
    /\ decoded = Unset
    /\ strategy = "none"
    /\ message_data = Unset
    /\ xml_data = Unset
    /\ OrchIdle

SpecRun == InitRun /\ [][NextRun]_vars

(***************************************************************************)
(* orch.py: the orchestrator of the processing phases                      *)
(***************************************************************************)
\* a DataFrame, as far as the orchestrator looks at it: its columns, each
\* with its label and the file its values were read from
Frame(columns) == [t |-> "frame", v |-> columns]
Column(label, of) == [label |-> label, of |-> of]

\* what a path designates: no readable CSV file, or a CSV file
Missing == [state |-> "missing", columns |-> <<>>]
Csv(columns) == [state |-> "csv", columns |-> columns]
Truncated == [state |-> "truncated", columns |-> <<>>]

\* the formatted time datetime.now().strftime returns at line 37
Clock == {<<"2","0","2","6","1","1","0","2","_","1","2","0","0","0","0">>}

\* get_timestamp, lines 33-37: an empty --timestamp is not "provided"
get_timestamp(provided_ts) ==
    IF provided_ts # None /\ provided_ts.v # <<>>
    THEN {provided_ts.v}
    ELSE Clock

\* the f-strings of lines 66, 70, 74, 78, 82, 87 and 125
clean_output(t) == <<"c","l","e","a","_">> \o t \o <<".","c","s","v">>
transform_output(t) == <<"t","r","a","n","s","f","o","r","m","_">> \o t \o <<".","c","s","v">>
reinforce_output(t) == <<"r","e","i","n","f","o","r","c","e","d","_","a","l","e","r","t","_","d","a","t","a","_">> \o t \o <<".","c","s","v">>
category_output(t) == <<"r","e","i","n","f","o","r","c","e","d","_","a","l","e","r","t","_","d","a","t","a","_","u","p","d","a","t","e","d","_">> \o t \o <<".","c","s","v">>
incidentgrade_output(t) == <<"r","e","i","n","f","o","r","c","e","d","_","a","l","e","r","t","_","d","a","t","a","_","u","p","d","a","t","e","d","_","i","_">> \o t \o <<".","c","s","v">>
mitre_output(t) == <<"r","e","i","n","f","o","r","c","e","d","_","a","l","e","r","t","_","d","a","t","a","_","w","i","t","h","_","p","r","e","d","i","c","t","i","o","n","_">> \o t \o <<".","c","s","v">>
final_output(t) == <<"f","i","n","a","l","_","m","e","r","g","e","d","_">> \o t \o <<".","c","s","v">>

extra_args_incident ==
    <<"--model", "incident_model.pkl", "--label", "incident_label.pkl">>
extra_args_mitre ==
    <<"--model", "mitre_model.pkl", "--label", "mitre_label.pkl",
      "--feature_encoders", "feature_encoders.pkl">>

\* the six run_phase calls of main in program order, lines 65-89
Phases(input, t) ==
    << [script |-> "clean.py", input |-> input,
        output |-> clean_output(t), extra_args |-> <<>>],
       [script |-> "transform_generated_log.py", input |-> clean_output(t),
        output |-> transform_output(t), extra_args |-> <<>>],
       [script |-> "renforce.py", input |-> transform_output(t),
        output |-> reinforce_output(t), extra_args |-> <<>>],
       [script |-> "category.py", input |-> reinforce_output(t),
        output |-> category_output(t), extra_args |-> <<>>],
       [script |-> "incident_grade.py", input |-> reinforce_output(t),
        output |-> incidentgrade_output(t),
        extra_args |-> extra_args_incident],
       [script |-> "mitre.py", input |-> reinforce_output(t),
        output |-> mitre_output(t), extra_args |-> extra_args_mitre] >>

\* run_phase, lines 49-51: the command line
Command(p) ==
    <<"python3", p.script, "--input", p.input, "--output", p.output>>
        \o p.extra_args

\* subprocess.run(command, check=True), line 53: whether it raises
\* CalledProcessError for the return code of the process
Unchecked(returncode) == FALSE
check(returncode) == returncode # 0

\* pd.read_csv(path): whether it raises (lines 94 and 101-103)
ReadFails(fs, path) == fs[path].state # "csv"

\* pd.read_csv(path): the frame read, its values being those of the file
read_csv(fs, path) ==
    Frame([j \in 1..Len(fs[path].columns) |->
               Column(fs[path].columns[j], path)])

\* line 95: df.columns.str.strip().str.lower()
StripLower(df) ==
    Frame([j \in 1..Len(df.v) |->
               Column(lower(strip(df.v[j].label)), df.v[j].of)])

\* 'label' in df.columns
HasColumn(df, label) == \E j \in 1..Len(df.v) : df.v[j].label = label

\* the first column of df with that label
ColumnIndex(df, label) ==
    CHOOSE j \in 1..Len(df.v) :
        /\ df.v[j].label = label
        /\ \A k \in 1..(j - 1) : df.v[k].label # label

\* df[label] = other[label]: every column of that label takes the values,
\* and a new column is added last when there is none
SetColumn(df, label, other) ==
    IF HasColumn(df, label)
    THEN Frame([j \in 1..Len(df.v) |->
                    IF df.v[j].label = label
                    THEN Column(label, other.v[ColumnIndex(other, label)].of)
                    ELSE df.v[j]])
    ELSE Frame(Append(df.v,
                      Column(label, other.v[ColumnIndex(other, label)].of)))

category == <<"c","a","t","e","g","o","r","y">>
incidentgrade == <<"i","n","c","i","d","e","n","t","g","r","a","d","e">>
predicted_mitre == <<"p","r","e","d","i","c","t","e","d","_","m","i","t","r","e">>

\* lines 110-113, 115-118 and 120-123: one prediction column attached, or
\* left out with a warning
Attached(df, label, other) ==
    IF HasColumn(other, label) THEN SetColumn(df, label, other) ELSE df

AttachWarning(label, other, warning) ==
    IF HasColumn(other, label) THEN <<>> ELSE << <<"Warning:", warning>> >>

\* lines 56-63
OrchMain ==
    /\ pc = "orch"
    /\ \E t \in get_timestamp(args.timestamp) :
           /\ ts' = t
           /\ printed' = Append(printed, <<"Using timestamp:", t>>)
    /\ phase' = 1
    /\ pc' = "phase"
    /\ UNCHANGED <<args, processes, files, df_orig, predictions, exc>>
    /\ UNCHANGED <<extractvars, runvars>>

\* run_phase up to the start of the process, lines 49-53; python3 may be
\* impossible to start, and subprocess.run raises OSError
StartPhase ==
    /\ pc = "phase"
    /\ \E p \in {Phases(args.input, ts)[phase]}, started \in BOOLEAN :
           /\ printed' = Append(printed, <<"Running command:", Command(p)>>)
           /\ IF started
              THEN /\ processes' = Append(processes,
                                          [args |-> Command(p),
                                           returncode |-> None])
                   /\ pc' = "running"
                   /\ UNCHANGED exc
              ELSE /\ exc' = [type |-> "OSError", fn |-> "run_phase"]
                   /\ pc' = "raised"
                   /\ UNCHANGED processes
    /\ UNCHANGED <<args, ts, phase, files, df_orig, predictions>>
    /\ UNCHANGED <<extractvars, runvars>>

\* what the process of a phase leaves at its --output path: nothing, or a
\* CSV file with or without the prediction columns
Outputs ==
    {Csv(<< <<"i","d">> >>),
     Csv(<< <<"i","d">>, category, incidentgrade, predicted_mitre >>)}

\* the return codes of a process: success, failure, killed by a signal
ReturnCodes == {0, 1, -9}

\* the process returns, line 53, and main goes on to its next statement
PhaseReturns ==
    /\ pc = "running"
    /\ \E returncode \in ReturnCodes :
           /\ processes' = [processes EXCEPT ![Len(processes)].returncode =
                                Num(returncode)]
           /\ IF check(returncode)
              THEN /\ exc' = [type |-> "CalledProcessError",
                              fn |-> "run_phase"]
                   /\ pc' = "raised"
                   /\ UNCHANGED phase
              ELSE /\ phase' = phase + 1
                   /\ pc' = IF phase = Len(Phases(args.input, ts))
                            THEN "merge" ELSE "phase"
                   /\ UNCHANGED exc
    /\ \E written \in BOOLEAN, output \in Outputs :
           files' = IF written
                    THEN [files EXCEPT
                              ![Phases(args.input, ts)[phase].output] = output]
                    ELSE files
    /\ UNCHANGED <<args, ts, df_orig, predictions, printed>>
    /\ UNCHANGED <<extractvars, runvars>>

\* lines 92-98
ReadOriginal ==
    /\ pc = "merge"
    /\ IF ReadFails(files, args.input)
       THEN /\ printed' = printed \o
                    << <<"=== Merging Predictions with Original Log ===">>,
                       <<"Error loading original input file", args.input>> >>
            /\ pc' = "exit"
            /\ UNCHANGED df_orig
       ELSE /\ printed' = Append(printed,
                    <<"=== Merging Predictions with Original Log ===">>)
            /\ df_orig' = StripLower(read_csv(files, args.input))
            /\ pc' = "predictions"
    /\ UNCHANGED <<args, ts, phase, processes, files, predictions, exc>>
    /\ UNCHANGED <<extractvars, runvars>>

\* lines 100-106
ReadPredictions ==
    /\ pc = "predictions"
    /\ IF \/ ReadFails(files, category_output(ts))
          \/ ReadFails(files, incidentgrade_output(ts))
          \/ ReadFails(files, mitre_output(ts))
       THEN /\ printed' = Append(printed,
                    <<"Error loading one of the prediction outputs:">>)
            /\ pc' = "exit"
            /\ UNCHANGED predictions
       ELSE /\ predictions' =
                    [df_cat |-> read_csv(files, category_output(ts)),
                     df_inc |-> read_csv(files, incidentgrade_output(ts)),
                     df_mitre |-> read_csv(files, mitre_output(ts))]
            /\ pc' = "attach"
            /\ UNCHANGED printed
    /\ UNCHANGED <<args, ts, phase, processes, files, df_orig, exc>>
    /\ UNCHANGED <<extractvars, runvars>>

\* lines 110-123
AttachPredictions ==
    /\ pc = "attach"
    /\ df_orig' =
           Attached(Attached(Attached(df_orig, category, predictions.df_cat),
                             incidentgrade, predictions.df_inc),
                    predicted_mitre, predictions.df_mitre)
    /\ printed' = printed
           \o AttachWarning(category, predictions.df_cat,
                  "'category' column not found in category predictions.")
           \o AttachWarning(incidentgrade, predictions.df_inc,
                  "'incidentgrade' column not found in incident grade predictions.")
           \o AttachWarning(predicted_mitre, predictions.df_mitre,
                  "'predicted_mitre' column not found in MITRE predictions.")
    /\ pc' = "save"
    /\ UNCHANGED <<args, ts, phase, processes, files, predictions, exc>>
    /\ UNCHANGED <<extractvars, runvars>>

\* lines 125-130: the file is opened for writing, and the write may fail
SaveFinal ==
    /\ pc = "save"
    /\ \E saved \in BOOLEAN :
           IF saved
           THEN /\ files' = [files EXCEPT ![final_output(ts)] =
                                 Csv([j \in 1..Len(df_orig.v) |->
                                          df_orig.v[j].label])]
                /\ printed' = Append(printed,
                       <<"Final merged output saved as", final_output(ts)>>)
           ELSE /\ files' = [files EXCEPT ![final_output(ts)] = Truncated]
                /\ printed' = Append(printed,
                       <<"Error saving final output", final_output(ts)>>)
    /\ pc' = "done"
    /\ UNCHANGED <<args, ts, phase, processes, df_orig, predictions, exc>>
    /\ UNCHANGED <<extractvars, runvars>>

NextOrch ==
    \/ OrchMain
    \/ StartPhase
    \/ PhaseReturns
    \/ ReadOriginal
    \/ ReadPredictions
    \/ AttachPredictions
    \/ SaveFinal

\* the command lines explored: --input names the file of the usage line or
\* the file the reinforce phase writes, --timestamp is absent, empty or given
InputPaths ==
    {<<"r","e","i","n","f","o","r","c","e","d","_","a","l","e","r","t","_","d","a","t","a",".","c","s","v">>, reinforce_output(<<"T">>)}
Timestamps == {None, Str(<<>>), Str(<<"T">>)}

\* the paths a run can touch
Paths ==
    InputPaths \cup
    UNION {{clean_output(t), transform_output(t), reinforce_output(t),
            category_output(t), incidentgrade_output(t), mitre_output(t),
            final_output(t)} : t \in Clock \cup {<<"T">>}}

\* the original log before the run: missing, or a CSV file
Originals ==
    {Missing,
     Csv(<< <<" ","I","d"," ">> >>),
     Csv(<< <<" ","I","d"," ">>, <<"C","a","t","e","g","o","r","y"," ">> >>)}

InitOrch ==
    /\ pc = "orch"
    /\ args \in [input : InputPaths, timestamp : Timestamps]
    /\ \E original \in Originals :
           files = [path \in Paths |->
                        IF path = args.input THEN original ELSE Missing]
    /\ ts = Unset
    /\ phase = 0
    /\ processes = <<>>
    /\ df_orig = Unset
    /\ predictions = Unset
    /\ printed = <<>>
    /\ exc = NoException
    /\ RunIdle
    /\ ExtractIdle

SpecOrch == InitOrch /\ [][NextOrch]_vars

(***************************************************************************)
(* Properties of parse_message_field                                       *)
(***************************************************************************)
StartsWith(s, p) == Len(s) >= Len(p) /\ SubSeq(s, 1, Len(p)) = p

\* no two keys of the mapping d are equal after lower-casing
LowerDistinct(d) ==
    \A m, n \in DOMAIN d.v : m # n => lower(d.v[m][1].v) # lower(d.v[n][1].v)

\* C3: for a message that is the JSON text of an object (whose keys stay
\* distinct when lower-cased), parse_message_field returns a mapping with one
\* entry per input field, under the lower-cased key and with the input value.
C3_JsonObjectLowerCasedKeys ==
    (pc = "parsed" /\ origin.kind = "json" /\ LowerDistinct(origin.doc))
        => /\ decoded.t = "dict"
           /\ Len(decoded.v) = Len(origin.doc.v)
           /\ \A n \in DOMAIN origin.doc.v :
                  LET key == Str(lower(origin.doc.v[n][1].v))
                  IN  /\ Has(decoded, key)
                      /\ Get(decoded, key) = origin.doc.v[n][2]

\* C4: whichever strategy decoded the message, every token k=v of an
\* EventProperties=[...] span in the raw message is in the result as
\* eventprop_<lower-cased k> -> v.
C4_EventPropertiesAnyStrategy ==
    (pc = "parsed" /\ origin.props # <<>>)
        => /\ decoded.t = "dict"
           /\ \A n \in DOMAIN origin.props :
                  LET key == Str(EventpropPrefix \o lower(origin.props[n][1]))
                  IN  /\ Has(decoded, key)
                      /\ Get(decoded, key) = Str(origin.props[n][2])

\* C5: the value parse_message_field returns is always a mapping whose keys
\* are strings and whose values are strings or null.
C5_ResultIsStringMapping ==
    pc = "parsed"
        => /\ decoded.t = "dict"
           /\ \A n \in DOMAIN decoded.v :
                  /\ IsStr(decoded.v[n][1])
                  /\ decoded.v[n][2].t \in {"str", "None"}

\* C6: parse_message_field never raises: no exception leaves it, whatever the
\* message string.
C6_ParseNeverRaises ==
    exc.fn = "parse_message_field" => ~IsStr(MessageOf(hit).v)

\* the value the regex fallback stores for the token value v
TokenValue(v) ==
    IF lower(strip(v)) = NotAvailable THEN None ELSE Str(strip(v))

\* no later token has the key of token n, case ignored
LastOfKey(toks, n) ==
    \A m \in DOMAIN toks : m > n => lower(toks[m][1]) # lower(toks[n][1])

\* C7: for a message made of tokens key=value (key of word characters, value
\* not empty and free of ',' and '}') separated by ', ' and optionally ended
\* by '}', the regex fallback decodes it, and the result maps each
\* lower-cased key to its trimmed value, or to null for 'not available' in
\* any casing (the last token of a key counts), and has no other key.
C7_RegexFallbackTokens ==
    (origin.kind = "kv" /\ origin.props = <<>> /\ pc \notin {"start", "message"})
        => /\ strategy = "regex"
           /\ decoded.t = "dict"
           /\ \A n \in DOMAIN origin.toks :
                  LastOfKey(origin.toks, n)
                      => /\ Has(decoded, Str(lower(origin.toks[n][1])))
                         /\ Get(decoded, Str(lower(origin.toks[n][1])))
                                = TokenValue(origin.toks[n][2])
           /\ \A k \in DOMAIN decoded.v :
                  \E n \in DOMAIN origin.toks :
                      decoded.v[k][1] = Str(lower(origin.toks[n][1]))

\* 'key1=foo, key2=bar}' has been decoded to {key1: foo, key2: bar}
C7_Witness ==
    /\ pc = "parsed"
    /\ origin.kind = "kv"
    /\ MessageOf(hit).v =
           Str(<<"k","e","y","1","=","f","o","o",",", " ",
                 "k","e","y","2","=","b","a","r","}">>)
    /\ decoded = Dict(<< <<Str(<<"k","e","y","1">>), Str(<<"f","o","o">>)>>,
                         <<Str(<<"k","e","y","2">>), Str(<<"b","a","r">>)>> >>)

(***************************************************************************)
(* Properties of extract_from_event_xml                                    *)
(***************************************************************************)
\* the key the claim names for a Data element: eventdata_<lower-cased NAME>
NamedData(name) == Str(<<"e","v","e","n","t","d","a","t","a","_">> \o lower(name))

\* every key of the mapping d starts with eventdata_ or system_
XmlKeyPrefixes(d) ==
    \A k \in DOMAIN d.v :
        \/ StartsWith(d.v[k][1].v, EventdataPrefix)
        \/ StartsWith(d.v[k][1].v, SystemPrefix)

\* C8 as stated: every occurrence of <Data Name='NAME'>VALUE</Data> in the
\* text (VALUE not empty) yields eventdata_<lower-cased NAME> -> VALUE, and every key of the
\* result starts with eventdata_ or system_.
C8_EveryDataOccurrence ==
    (pc = "merged" /\ origin.kind = "xml")
        => /\ \A n \in DOMAIN origin.toks :
                  origin.toks[n][2] # <<>>
                      => /\ Has(xml_data, NamedData(origin.toks[n][1]))
                         /\ Get(xml_data, NamedData(origin.toks[n][1]))
                                = Str(origin.toks[n][2])
           /\ XmlKeyPrefixes(xml_data)

\* no later element with a VALUE has the NAME of element n, case ignored
LastOfName(elems, n) ==
    \A m \in DOMAIN elems :
        (m > n /\ elems[m][2] # <<>>) => lower(elems[m][1]) # lower(elems[n][1])

\* C8 amended: every occurrence of <Data Name='NAME'>VALUE</Data> with a
\* VALUE that is not empty yields eventdata_<lower-cased NAME> -> VALUE,
\* unless a later such occurrence has the same lower-cased NAME (the later
\* one wins); every key of the result starts with eventdata_ or system_.
C8_LastDataOccurrence ==
    (pc = "merged" /\ origin.kind = "xml")
        => /\ \A n \in DOMAIN origin.toks :
                  (origin.toks[n][2] # <<>> /\ LastOfName(origin.toks, n))
                      => /\ Has(xml_data, NamedData(origin.toks[n][1]))
                         /\ Get(xml_data, NamedData(origin.toks[n][1]))
                                = Str(origin.toks[n][2])
           /\ XmlKeyPrefixes(xml_data)

\* two Data elements named User and USER have been read, next to System
\* fields: the later value is the one kept
C8_Witness ==
    /\ pc = "merged"
    /\ origin.kind = "xml"
    /\ origin.toks = << <<<<"U","s","e","r">>, <<"a","l","i","c","e">>>>,
                        <<<<"U","S","E","R">>, <<"b","o","b">>>> >>
    /\ Get(xml_data, NamedData(<<"U","s","e","r">>)) = Str(<<"b","o","b">>)
    /\ \E k \in DOMAIN xml_data.v : StartsWith(xml_data.v[k][1].v, SystemPrefix)

(***************************************************************************)
(* Properties of normalize_field_names and extract_data_from_log           *)
(***************************************************************************)
\* C9: the output of normalize_field_names has a 'timestamp' entry only for
\* a string value: an input entry whose key lower-cases to 'timestamp' and
\* whose value is no string produces none.
C9_TimestampOnlyForStrings ==
    pc = "normalized"
        => \A n \in DOMAIN message_data.v :
               message_data.v[n][1] = Str(Timestamp)
                   => IsStr(message_data.v[n][2])

\* C10: the record extract_data_from_log returns has no two distinct keys
\* that are equal after lower-casing.
C10_RecordKeysCaseUnique ==
    pc = "done" => LowerDistinct(result)

\* C11: extract_data_from_log never raises, whatever the hit mapping: no
\* exception leaves it or the functions it calls.
C11_ExtractNeverRaises ==
    pc # "raised"

\* C20: parse_message_field returns the result of the JSON or of the literal
\* strategy only if it is a non-empty mapping; an empty or non-mapping result
\* advances to the next strategy.
C20_StrategyReturnsNonEmptyMapping ==
    (pc = "parsed" /\ strategy \in {"json", "literal"})
        => (decoded.t = "dict" /\ decoded.v # <<>>)

(***************************************************************************)
(* Properties of save_to_csv                                               *)
(***************************************************************************)
\* whether a record was logged
Said(level, message) == <<level, message>> \in Range(logged)

\* whether main is over: it returned, exited or raised
RunEnded == pc \in {"completed", "exit", "raised"}

\* whether a column name is a member of the catalogue, and where
IsKnown(name) == \E n \in DOMAIN FIELDS_OF_INTEREST : FIELDS_OF_INTEREST[n] = name.v

CatalogueIndex(name) ==
    CHOOSE n \in DOMAIN FIELDS_OF_INTEREST : FIELDS_OF_INTEREST[n] = name.v

\* the keys of all the records
UnionOfKeys(data) == {k \in UNION {Keys(data[n]) : n \in DOMAIN data} : TRUE}

\* C12: the header of save_to_csv is exactly the union of the keys of all
\* records, without duplicates, the FIELDS_OF_INTEREST members first in
\* catalogue order, then all other keys in lexicographic order.  These
\* conditions fix the header given the set of keys, so every permutation of
\* the records has the same header.
C12_HeaderOrder ==
    fieldnames # Unset =>
        /\ Range(fieldnames.v) = UnionOfKeys(extracted_data.v)
        /\ \A m, n \in DOMAIN fieldnames.v :
               m < n =>
                   /\ fieldnames.v[m] # fieldnames.v[n]
                   /\ IsKnown(fieldnames.v[n]) => IsKnown(fieldnames.v[m])
                   /\ (IsKnown(fieldnames.v[m]) /\ IsKnown(fieldnames.v[n])) =>
                          CatalogueIndex(fieldnames.v[m]) < CatalogueIndex(fieldnames.v[n])
                   /\ (~IsKnown(fieldnames.v[m]) /\ ~IsKnown(fieldnames.v[n])) =>
                          StrLess(fieldnames.v[m].v, fieldnames.v[n].v)

\* a header computed for two records with different keys, with a catalogue
\* member and two other keys, one of them with a capital letter
C12_Witness ==
    /\ fieldnames # Unset
    /\ Len(extracted_data.v) = 2
    /\ Keys(extracted_data.v[1]) # Keys(extracted_data.v[2])
    /\ \E n \in DOMAIN fieldnames.v : IsKnown(fieldnames.v[n])
    /\ \E m, n \in DOMAIN fieldnames.v :
           /\ m # n
           /\ ~IsKnown(fieldnames.v[m]) /\ ~IsKnown(fieldnames.v[n])
           /\ \E k \in DOMAIN fieldnames.v[m].v : fieldnames.v[m].v[k] \in Range(UpperSeq)

\* whether save_to_csv was called with no record and has returned
SavedNothing ==
    /\ pc \in {"finish", "completed"}
    /\ hits # Unset
    /\ Iterated(hits) = <<>>

Structured(x) == x.t \in {"dict", "list", "tuple"}

\* C14: every data row has one cell per header column; the cell for a column
\* absent from the record is the empty string; a cell whose value is a nested
\* mapping or sequence holds its JSON serialization; every other cell holds
\* the record's value for that column.
C14_CellRendering ==
    csvfile.state \in {"open", "closed"} =>
        \A i \in 2..Len(csvfile.rows) :
            /\ Len(csvfile.rows[i]) = Len(fieldnames.v)
            /\ \A n \in DOMAIN fieldnames.v :
                   csvfile.rows[i][n] =
                       IF ~Has(extracted_data.v[i - 1], fieldnames.v[n])
                       THEN <<>>
                       ELSE IF Structured(Get(extracted_data.v[i - 1], fieldnames.v[n]))
                            THEN json_dumps(Get(extracted_data.v[i - 1], fieldnames.v[n]))
                            ELSE CellText(Get(extracted_data.v[i - 1], fieldnames.v[n]))

(***************************************************************************)
(* Properties of main and process_file_directly                            *)
(***************************************************************************)
\* the hits of the batch whose extraction raises
FailingHits == {n \in DOMAIN Iterated(hits) :
                   extract_data_from_log(Iterated(hits)[n]).ex # "none"}

\* C15: in a batch of hits, a failure while extracting one hit never aborts
\* the batch: every other hit is still extracted, and the output table is
\* still written with the rows of the hits that did not fail.
C15_PerHitIsolation ==
    (RunEnded /\ hits # Unset) =>
        /\ \A n \in DOMAIN Iterated(hits) \ FailingHits :
               \E m \in DOMAIN extracted_data.v :
                   extracted_data.v[m] = extract_data_from_log(Iterated(hits)[n]).v
        /\ (/\ DOMAIN Iterated(hits) # FailingHits
            /\ ~Said("ERROR", "Failed to save data to CSV")) =>
               /\ csvfile.state = "closed"
               /\ Len(csvfile.rows) =
                      1 + Len(Iterated(hits)) - Cardinality(FailingHits)

\* whether the hit file does not exist, cannot be read, or is parsed by
\* neither file-level strategy
SourceFailed ==
    \/ host.from_file /\ ~host.isfile
    \/ host.isfile /\ ~host.readable
    \/ /\ host.isfile
       /\ ~json_loads(host.text).ok
       /\ NdjsonHits(<<>>, host.text) = <<>>

\* C16: when the hit file does not exist, cannot be read, or cannot be parsed
\* by either file-level strategy, no hit is extracted, no output table is
\* written, and the run ends in a failure outcome: it does not go on to
\* report the script as completed and the output as saved.
C16_SourceFailureAborts ==
    (RunEnded /\ SourceFailed) =>
        /\ extracted_data = Unset
        /\ csvfile \in {Absent, OldFile}
        /\ pc # "completed"
        /\ ~Said("INFO", "Script completed")
        /\ ~Said("INFO", "Output saved to")

\* whether the output file holds a part of the table only
PartialTable ==
    /\ csvfile.state = "closed"
    /\ Len(csvfile.rows) # 1 + Len(extracted_data.v)

\* C17: if persisting the output table fails after the output file was
\* opened, then either the file does not hold a partial table, or the run
\* ends in a failure outcome and does not report the output as saved.
C17_NoAmbiguousFile ==
    (RunEnded /\ PartialTable) =>
        /\ pc # "completed"
        /\ ~Said("INFO", "Output saved to")

\* the message of a hit that has one as text, <<>> for any other hit
MessageText(h) ==
    IF /\ h.t = "dict" /\ Has(h, K_source)
       /\ Get(h, K_source).t = "dict" /\ Has(Get(h, K_source), K_message)
       /\ IsStr(Get(Get(h, K_source), K_message))
    THEN Get(Get(h, K_source), K_message).v
    ELSE <<>>

\* whether a hit's message matches no decoding strategy: it is neither JSON
\* nor a Python literal and holds no key=value token
Undecodable(h) ==
    /\ MessageText(h) # <<>>
    /\ ~json_loads(MessageText(h)).ok
    /\ literal_eval(MessageText(h)).ex # "none"
    /\ FindAllKV(MessageText(h), 1, "}") = <<>>

Incidentid == <<"i","n","c","i","d","e","n","t","i","d">>

\* the column of a name in the header, 0 if it has none
ColumnOf(name) ==
    IF \E n \in DOMAIN fieldnames.v : fieldnames.v[n].v = name
    THEN CHOOSE n \in DOMAIN fieldnames.v : fieldnames.v[n].v = name
    ELSE 0

\* C18: in a file of hits where some hit's message matches no decoding
\* strategy, the run raises no run-level error, the output table has one row
\* per hit, the row of the undecodable hit has every FIELDS_OF_INTEREST cell
\* empty, and the rows of the other hits carry their decoded fields: a hit
\* whose message is the JSON object with incidentid "1" yields a row with
\* incidentid = 1.  (Stated for files whose other hits hold that JSON message,
\* and for runs in which writing the table did not fail.)
C18_UndecodableDegrades ==
    (/\ RunEnded
     /\ host.isfile /\ hits # Unset /\ hits.t = "list"
     /\ \E n \in DOMAIN hits.v : Undecodable(hits.v[n])
     /\ \A n \in DOMAIN hits.v :
            Undecodable(hits.v[n]) \/ MessageText(hits.v[n]) = JsonMessage
     /\ ~Said("ERROR", "Failed to save data to CSV")) =>
        /\ pc = "completed"
        /\ ~Said("ERROR", "Failed to process file")
        /\ ~Said("ERROR", "Failed to process file as NDJSON")
        /\ csvfile.state = "closed"
        /\ Len(csvfile.rows) = 1 + Len(hits.v)
        /\ \A n \in DOMAIN hits.v :
               IF Undecodable(hits.v[n])
               THEN \A c \in DOMAIN fieldnames.v :
                        IsKnown(fieldnames.v[c]) => csvfile.rows[n + 1][c] = <<>>
               ELSE /\ ColumnOf(Incidentid) # 0
                    /\ csvfile.rows[n + 1][ColumnOf(Incidentid)] = <<"1">>

(***************************************************************************)
(* Properties of the orchestrator                                          *)
(***************************************************************************)
\* the scripts of the six phases, in the order of the module docstring
PhaseOrder ==
    <<"clean.py", "transform_generated_log.py", "renforce.py", "category.py",
      "incident_grade.py", "mitre.py">>

\* whether the i-th process started has returned with return code 0
Succeeded(i) ==
    /\ processes[i].returncode.t = "int"
    /\ processes[i].returncode.v = 0

\* whether the merge has begun: main has passed its last run_phase call,
\* has read the original log or has touched the final merged file
MergeBegun ==
    \/ pc \in {"merge", "predictions", "attach", "save", "done"}
    \/ df_orig # Unset
    \/ predictions # Unset
    \/ \E t \in Clock \cup {<<"T">>} : files[final_output(t)] # Missing
    \/ \E i \in 1..Len(printed) :
           printed[i][1] \in {"=== Merging Predictions with Original Log ===",
                              "Final merged output saved as",
                              "Error saving final output"}

\* C19: the processes started are, in order, those of the phases clean,
\* transform, reinforce, category, incident grade, MITRE, each at most once;
\* a process is started only when every process before it has returned with
\* return code 0, so that at most one is running; and the merge of the
\* predictions and the writing of the final merged CSV begin only when all
\* six processes have returned with return code 0.
C19_PhaseOrdering ==
    /\ Len(processes) <= Len(PhaseOrder)
    /\ \A i \in 1..Len(processes) :
           /\ processes[i].args[2] = PhaseOrder[i]
           /\ i < Len(processes) => Succeeded(i)
    /\ pc = "running" <=> /\ processes # <<>>
                          /\ processes[Len(processes)].returncode = None
    /\ MergeBegun =>
           /\ Len(processes) = Len(PhaseOrder)
           /\ \A i \in 1..Len(processes) : Succeeded(i)

\* all six phases have succeeded and the final merged CSV is written with
\* the three prediction columns
C19_Witness ==
    /\ pc = "done"
    /\ Len(processes) = 6
    /\ files[final_output(ts)].state = "csv"
    /\ \A label \in {category, incidentgrade, predicted_mitre} :
           label \in Range(files[final_output(ts)].columns)

\* a run that a failing phase ended: the fourth process returned with a
\* return code other than 0 and nothing was started or merged after it
C19_FailureWitness ==
    /\ pc = "raised"
    /\ Len(processes) = 4
    /\ processes[4].returncode.t = "int"
    /\ processes[4].returncode.v # 0

(***************************************************************************)
(* Properties of the merge steps of extract_data_from_log                  *)
(***************************************************************************)
\* the message mapping as normalize_field_names returned it, before the
\* fields of the event XML were merged into it
NormalizedMessage == normalize_field_names(decoded).v

\* the keys that the normalized message and the XML fields both have
SharedKeys == Keys(NormalizedMessage) \cap Keys(xml_data)

\* whether extract_from_event_xml has returned and its fields are merged
XmlMerged == pc \in {"merged", "done"} /\ xml_data # Unset

\* C21, as claimed: when the normalized message mapping has an eventxml key
\* and a key that extract_from_event_xml produces too, the merged mapping
\* keeps the message-derived value for that key.
C21_MessageValueKept ==
    XmlMerged => \A k \in SharedKeys :
                     Get(message_data, k) = Get(NormalizedMessage, k)

\* C21, amended: when the normalized message mapping has an eventxml key and
\* a key that extract_from_event_xml produces too, the merged mapping holds
\* the XML-derived value for that key, and every other key of the message
\* keeps its message-derived value.
C21_XmlValueKept ==
    XmlMerged =>
        /\ \A k \in Keys(xml_data) : Get(message_data, k) = Get(xml_data, k)
        /\ \A k \in Keys(NormalizedMessage) \ Keys(xml_data) :
               Get(message_data, k) = Get(NormalizedMessage, k)
        /\ Keys(message_data) = Keys(NormalizedMessage) \cup Keys(xml_data)

\* a record made from a message whose own eventdata_ or system_ field
\* differs from the one of its event XML
C21_Witness ==
    /\ pc = "done"
    /\ xml_data # Unset
    /\ \E k \in SharedKeys :
           /\ Get(NormalizedMessage, k) # Get(xml_data, k)
           /\ Get(result, k) = Get(xml_data, k)

\* the three keys a known field is resolved from, in the order of the code
KnownSources(name) ==
    <<Str(name), Str(<<"e","v","e","n","t","_">> \o name),
      Str(<<"e","v","e","n","t","d","a","t","a","_">> \o name)>>

\* whether the call has returned after populating the record from a
\* message mapping (a message that is absent or decodes to nothing has none)
Populated == pc = "done" /\ message_data.t = "dict" /\ message_data.v # <<>>

\* which of the three keys of a known field the message mapping has
PresentSources(name) ==
    {j \in 1..3 : Populated /\ Has(message_data, KnownSources(name)[j])}

\* C22: for each name in FIELDS_OF_INTEREST, the record's value under the
\* bare name is the value of the first key present in the message mapping
\* among name, event_<name>, eventdata_<name>; the name is a key of the
\* record if and only if one of the three is present in the message mapping.
C22_KnownFieldResolution ==
    pc = "done" =>
        \A n \in DOMAIN FIELDS_OF_INTEREST :
            /\ Has(result, Str(FIELDS_OF_INTEREST[n]))
                   <=> PresentSources(FIELDS_OF_INTEREST[n]) # {}
            /\ PresentSources(FIELDS_OF_INTEREST[n]) # {} =>
                   Get(result, Str(FIELDS_OF_INTEREST[n])) =
                       Get(message_data,
                           KnownSources(FIELDS_OF_INTEREST[n])[
                               MinOf(PresentSources(FIELDS_OF_INTEREST[n]))])

\* a record whose id comes from event_id although eventdata_id is there
C22_Witness ==
    /\ Populated
    /\ PresentSources(<<"i","d">>) = {2, 3}
    /\ Get(message_data, KnownSources(<<"i","d">>)[2])
           # Get(message_data, KnownSources(<<"i","d">>)[3])
    /\ Get(result, Str(<<"i","d">>))
           = Get(message_data, KnownSources(<<"i","d">>)[2])

\* the fields the hit's envelope gave the record, lines 225-246
EnvelopeFields == Envelope(hit).v

\* C23: every key of the message mapping (after normalization and XML
\* merge) is a key of the returned record; its value is the message
\* mapping's value unless the key was already set from the hit envelope, in
\* which case the envelope value is kept.
C23_UnanticipatedFieldsPreserved ==
    Populated =>
        \A k \in Keys(message_data) :
            /\ Has(result, k)
            /\ Get(result, k) = IF Has(EnvelopeFields, k)
                                THEN Get(EnvelopeFields, k)
                                ELSE Get(message_data, k)

\* a record that keeps an envelope value against the message's value for
\* the same key, next to a message key that is no known field
C23_Witness ==
    /\ Populated
    /\ \E k \in Keys(message_data) \cap Keys(EnvelopeFields) :
           /\ Get(message_data, k) # Get(EnvelopeFields, k)
           /\ Get(result, k) = Get(EnvelopeFields, k)
    /\ \E k \in Keys(message_data) \ Keys(EnvelopeFields) :
           /\ ~IsKnown(k)
           /\ Get(result, k) = Get(message_data, k)

\* whether a value is a mapping with string keys
StringKeyed(x) == x.t = "dict" /\ \A k \in Keys(x) : IsStr(k)

\* the entries of a mapping whose key has the lower-cased form low
Spellings(d, low) == {n \in DOMAIN d.v : lower(d.v[n][1].v) = low}

\* C24: for an input mapping with string keys normalize_field_names does not
\* raise, the key set of its output is the set of the lower-cased input
\* keys, and every key other than timestamp whose lower-cased form is unique
\* in the input has the input value, an accountupn value without '@'
\* included.
C24_NormalizePassThrough ==
    /\ (decoded # Unset /\ StringKeyed(decoded))
           => exc.fn # "normalize_field_names"
    /\ pc = "normalized" =>
           /\ Keys(message_data) = {Str(lower(k.v)) : k \in Keys(decoded)}
           /\ \A n \in DOMAIN decoded.v :
                  (/\ lower(decoded.v[n][1].v) # <<"t","i","m","e","s","t","a","m","p">>
                   /\ Spellings(decoded, lower(decoded.v[n][1].v)) = {n})
                      => Get(message_data, Str(lower(decoded.v[n][1].v)))
                             = decoded.v[n][2]

\* normalize_field_names has returned an accountupn value without '@'
C24_Witness ==
    /\ pc = "normalized"
    /\ \E n \in DOMAIN decoded.v :
           /\ lower(decoded.v[n][1].v) = <<"a","c","c","o","u","n","t","u","p","n">>
           /\ Spellings(decoded, lower(decoded.v[n][1].v)) = {n}
           /\ IsStr(decoded.v[n][2])
           /\ "@" \notin Range(decoded.v[n][2].v)
           /\ Get(message_data, Str(<<"a","c","c","o","u","n","t","u","p","n">>))
                  = decoded.v[n][2]

(***************************************************************************)
(* Properties of a run: collection, file formats, purity, notices          *)
(***************************************************************************)
\* the records that open a call of save_to_csv: each call logs one of them
\* before anything else (lines 271 and 282)
SaveCalls ==
    {i \in DOMAIN logged :
         logged[i] \in {<<"WARNING", "No data to save">>,
                        <<"INFO", "Saving records">>}}

\* whether save_to_csv has been called, or the output has been touched
SaveBegun ==
    \/ SaveCalls # {}
    \/ pc \in {"header", "rows"}
    \/ fieldnames # Unset
    \/ csvfile.state \in {"open", "closed"}

\* whether extract_data_from_log has returned for every hit of the batch
AllExtracted ==
    /\ hits # Unset
    /\ extracted_data # Unset
    /\ Len(extracted_data.v) = Len(Iterated(hits))

\* C25: in every run save_to_csv is invoked at most once, and only after
\* extract_data_from_log has returned for every hit of the batch; no header
\* or row is written to the output before the last hit has been extracted.
C25_WriteOnceAfterCollection ==
    /\ Cardinality(SaveCalls) <= 1
    /\ SaveBegun => AllExtracted

\* a run over a two-line file that has saved its two records with one call
C25_Witness ==
    /\ pc = "completed"
    /\ Said("INFO", "Processed records from NDJSON file")
    /\ Cardinality(SaveCalls) = 1
    /\ Len(Iterated(hits)) = 2
    /\ csvfile.state = "closed"
    /\ Len(csvfile.rows) = 3

\* whether the file parses as one JSON document
ParsesAsDocument == json_loads(host.text).ok

\* whether the newline-delimited strategy has been attempted
NdjsonAttempted ==
    \/ pc \in {"ndjson", "extract_ndjson"}
    \/ \E i \in DOMAIN logged :
           logged[i][2] \in {"Trying to process as NDJSON",
                             "Failed to parse line as JSON",
                             "Processed records from NDJSON file",
                             "No valid JSON records found in file",
                             "Failed to process file as NDJSON"}

\* the lines of a text
RECURSIVE SplitLines(_)
SplitLines(text) ==
    IF \A i \in DOMAIN text : text[i] # "\n"
    THEN IF text = <<>> THEN <<>> ELSE <<text>>
    ELSE <<SubSeq(text, 1, MinOf({i \in DOMAIN text : text[i] = "\n"}) - 1)>>
         \o SplitLines(SubSeq(text,
                              MinOf({i \in DOMAIN text : text[i] = "\n"}) + 1,
                              Len(text)))

\* whether a line is neither blank nor unparsable
IsRecordLine(line) == strip(line) # <<>> /\ json_loads(strip(line)).ok

\* the values that lines hold
ValuesOf(lines) == [n \in DOMAIN lines |-> json_loads(strip(lines[n])).v]

\* the values of the lines of the file that are neither, in file order
RecordLines == ValuesOf(SelectSeq(SplitLines(host.text), IsRecordLine))

\* whether the hits are these values, each extracted in its turn, and all
\* of them extracted when the records are saved
ExtractedInOrder(values) ==
    /\ hits.t = "list"
    /\ hits.v = values
    /\ pc = "extract_ndjson" =>
           \A i \in DOMAIN extracted_data.v :
               extracted_data.v[i] = extract_data_from_log(values[i]).v
    /\ SaveBegun => Len(extracted_data.v) = Len(values)

\* C26: the file is first parsed as one JSON document; the newline-delimited
\* strategy is attempted only if that parse fails, never after it succeeded
\* (even for a document without hits.hits); in the newline-delimited
\* strategy blank and unparsable lines are skipped and the remaining lines
\* are extracted in file order, all of them before the records are saved.
C26_FileFormatFallback ==
    /\ NdjsonAttempted =>
           /\ host.isfile /\ host.readable
           /\ Said("INFO", "Processing file")
           /\ Said("ERROR", "Failed to parse JSON in file")
           /\ ~ParsesAsDocument
    /\ (NdjsonAttempted /\ hits # Unset) => ExtractedInOrder(RecordLines)

\* a run that has saved the records of the two record lines of a file with
\* a blank line and an unparsable line between them
C26_Witness ==
    /\ pc = "completed"
    /\ NdjsonAttempted
    /\ Len(SplitLines(host.text)) > Len(RecordLines)
    /\ Len(RecordLines) = 2
    /\ RecordLines[1] # RecordLines[2]
    /\ Len(extracted_data.v) = 2
    /\ csvfile.state = "closed"

\* a run over a file that is one JSON document without hits.hits, ended
\* without the newline-delimited strategy
C26_DocumentWitness ==
    /\ pc = "completed"
    /\ host.isfile /\ host.readable
    /\ ParsesAsDocument
    /\ hits = Unset
    /\ Said("ERROR", "Invalid Elasticsearch response format")

\* the hits as they were loaded from the source of the run
LoadedHits ==
    IF ~host.isfile
    THEN List(host.docs)
    ELSE IF ParsesAsDocument
         THEN ResponseHits(json_loads(host.text).v).v
         ELSE List(NdjsonHits(<<>>, host.text))

\* whether main or process_file_directly is in its loop over the hits
InLoop == pc \in {"extract_file", "extract_ndjson", "extract_es"}

SilentlyUndecodable(h) ==
    /\ Undecodable(h)
    /\ literal_eval(MessageText(h)).ex \in {"SyntaxError", "ValueError"}

\* whether a record of the log may tell of an error: any record of level
\* WARNING or ERROR, and any DEBUG record other than the one that shows the
\* message before it is parsed
IsNotice(rec) ==
    \/ rec[1] \in {"WARNING", "ERROR"}
    \/ rec[1] = "DEBUG" /\ rec[2] # "Processing message"

\* C28: whenever an error is caught and suppressed during a run, in
\* particular when no message-decoding strategy succeeds for a hit, at least
\* one log notice for that error is emitted before the run ends; stated of
\* the runs that end without an exception.
C28_NoSilentlySwallowedError ==
    (/\ pc = "completed"
     /\ hits # Unset
     /\ \E i \in DOMAIN extracted_data.v : SilentlyUndecodable(Iterated(hits)[i]))
        => \E i \in DOMAIN logged : IsNotice(logged[i])

\* whether save_to_csv has just been called: it has the records and has not
\* written yet
SaveCalled ==
    /\ SaveCalls # {}
    /\ \/ pc = "header"
       \/ pc = "finish" /\ csvfile.state \notin {"open", "closed"}

\* C29: in every run that reaches the writer, the list of records passed to
\* save_to_csv has exactly as many elements as the batch has hits, and its
\* i-th element is the record extracted from the i-th hit, a hit with no
\* _source or no message included.
C29_OneRecordPerHit ==
    SaveCalled =>
        /\ Len(extracted_data.v) = Len(Iterated(hits))
        /\ \A i \in DOMAIN Iterated(hits) :
               /\ extract_data_from_log(Iterated(hits)[i]).ex = "none"
               /\ extracted_data.v[i] = extract_data_from_log(Iterated(hits)[i]).v

\* the writer was reached with the records of a hit that has a message and
\* of a hit that has no _source, in this order
C29_Witness ==
    /\ SaveCalled
    /\ Len(extracted_data.v) = 2
    /\ MessageText(Iterated(hits)[1]) # <<>>
    /\ extracted_data.v[1] # EmptyDict
    /\ Iterated(hits)[2] = EmptyDict
    /\ extracted_data.v[2] = EmptyDict

====
